---- MODULE Spec2Model ----
(***************************************************************************)
(* GitHubProjectsClient (github_projects_mcp/github/client.py): the ticket *)
(* adapter over the GitHub REST and GraphQL endpoints.                     *)
(*                                                                         *)
(* The backend (the repository's issues and comments, the projects and     *)
(* their boards) is the state the adapter's requests read and write.  An   *)
(* adapter operation is a coroutine: every await of a remote request is    *)
(* one step of the invocation, and its outcome (a response, a transport    *)
(* failure, a GraphQL error list) is chosen at that step.                  *)
(*                                                                         *)
(* Python strings the code inspects (ticket ids: isdigit, int, str;        *)
(* status names: lower) are sequences of one-character strings.  Strings   *)
(* the code only carries (titles, label names) are atomic.                 *)
(***************************************************************************)
EXTENDS Integers, Sequences, FiniteSets, TLC

VARIABLES
    issues,     \* backend: the repository's issues, issues[n] has number n
    comments,   \* backend: comments[n] is the comment stream of issue n
    projects,   \* backend: per project number, its scope and its fields
    board,      \* backend: per project number, the items of the board
    self,       \* the adapter instance (client.py:33-41)
    pc,         \* per caller: the await the invocation is suspended at
    op,         \* per caller: the operation invoked and its arguments
    loc,        \* per caller: the local variables of the coroutine
    log,        \* per caller: the remote requests issued by the invocation
    res,        \* per caller: what the invocation returned or raised
    pre,        \* per caller: the comments and boards when it was invoked
    held        \* the ticket the caller last received from create_ticket

vars == <<issues, comments, projects, board, self, pc, op, loc, log, res, pre, held>>

backend == <<issues, comments, projects, board>>

-----------------------------------------------------------------------------
(* Bounds of the model.                                                    *)

MaxIssues == 2          \* issues the repository can hold

MaxDbId == 3            \* database ids the REST endpoint can assign

MaxComments == 1        \* comments the repository can hold in total

Titles == {"T1", "T2"}

Callers == {"c1"}

-----------------------------------------------------------------------------
(* Python strings as character sequences.                                  *)

Digits == <<"0", "1", "2", "3", "4", "5", "6", "7", "8", "9">>

DigitSet == {Digits[i] : i \in 1..Len(Digits)}

\* str(n) for a non-negative int
RECURSIVE PyStrInt(_)
PyStrInt(n) ==
    IF n < Len(Digits) THEN <<Digits[n + 1]>>
    ELSE PyStrInt(n \div Len(Digits)) \o <<Digits[(n % Len(Digits)) + 1]>>

\* str.isdigit(): non-empty and every character a digit
isdigit(s) == Len(s) > 0 /\ \A i \in 1..Len(s) : s[i] \in DigitSet

DigitVal(ch) == (CHOOSE i \in 1..Len(Digits) : Digits[i] = ch) - 1

\* int(s) for a digit string (leading zeros allowed)
RECURSIVE PyInt(_)
PyInt(s) ==
    IF Len(s) = 0 THEN 0
    ELSE PyInt(SubSeq(s, 1, Len(s) - 1)) * Len(Digits) + DigitVal(s[Len(s)])

UpperCase == <<"D", "T", "I", "P", "O", "N", "E", "C", "L", "S">>

LowerCase == <<"d", "t", "i", "p", "o", "n", "e", "c", "l", "s">>

LowerChar(ch) ==
    IF \E i \in 1..Len(UpperCase) : UpperCase[i] = ch
    THEN LowerCase[CHOOSE i \in 1..Len(UpperCase) : UpperCase[i] = ch]
    ELSE ch

\* str.lower()
lower(s) == [i \in 1..Len(s) |-> LowerChar(s[i])]

\* sep.join(parts)
RECURSIVE join(_, _)
join(sep, parts) ==
    IF Len(parts) = 0 THEN << >>
    ELSE IF Len(parts) = 1 THEN parts[1]
    ELSE parts[1] \o sep \o join(sep, Tail(parts))

-----------------------------------------------------------------------------
(* Values.                                                                 *)

NoId == << >>

TicketStatus_TODO == <<"T", "o", "d", "o">>

\* a value of the payload's "id": str(issue["id"]) is applied to it
IdStr(s) == [kind |-> "str", s |-> s, i |-> 0]

IdInt(i) == [kind |-> "int", s |-> NoId, i |-> i]

\* the GraphQL node id of issue n: never all digits
NodeId(n) == <<"I", "_">> \o PyStrInt(n)

\* a Ticket that comes with a branch
Ticket_branch(id, number, title, body, status, labels, assignees, milestone) ==
    [id |-> id, number |-> number, title |-> title, body |-> body,
     status |-> status, labels |-> labels, assignees |-> assignees,
     milestone |-> milestone, branch |-> "main", pull_requests |-> << >>,
     subtasks |-> << >>]

\* Ticket (models/ticket.py); timestamps, url and metadata are not modelled
Ticket(id, number, title, body, status, labels, assignees, milestone) ==
    [id |-> id, number |-> number, title |-> title, body |-> body,
     status |-> status, labels |-> labels, assignees |-> assignees,
     milestone |-> milestone, branch |-> "", pull_requests |-> << >>,
     subtasks |-> << >>]

NoTicket == Ticket(NoId, 0, "", "", << >>, << >>, << >>, "")

NoError == [exc |-> "", text |-> "", arg |-> << >>, list |-> << >>]

ValueError(text, arg, list) ==
    [exc |-> "ValueError", text |-> text, arg |-> arg, list |-> list]

\* httpx.HTTPError: raise_for_status() or the 30 s timeout
HTTPError == [exc |-> "HTTPError", text |-> "transport", arg |-> << >>, list |-> << >>]

NoBody == [prefix |-> "", number |-> << >>, title |-> ""]

\* one entry of an invocation's request log
Request(req, arg, out) ==
    [req |-> req, arg |-> arg, out |-> out, body |-> NoBody, value |-> NoId]

\* what an invocation ended in: a ticket, a list, or an exception
Returned(ticket) ==
    [done |-> TRUE, ok |-> TRUE, ticket |-> ticket, list |-> << >>, err |-> NoError]

ReturnedList(list) ==
    [done |-> TRUE, ok |-> TRUE, ticket |-> NoTicket, list |-> list, err |-> NoError]

Raised(err) ==
    [done |-> TRUE, ok |-> FALSE, ticket |-> NoTicket, list |-> << >>, err |-> err]

NoResult ==
    [done |-> FALSE, ok |-> FALSE, ticket |-> NoTicket, list |-> << >>, err |-> NoError]

-----------------------------------------------------------------------------
(* The remote endpoints.                                                   *)

LabelsFirst == 20       \* labels(first: 20)

AssigneesFirst == 10    \* assignees(first: 10)

ItemsFirst == 100       \* items(first: 100)

\* a connection's first page
Page(seq, first) == IF Len(seq) <= first THEN seq ELSE SubSeq(seq, 1, first)

\* what a query can end in: a response, a non-2xx status or timeout, an error list
QueryOutcomes == {"ok", "transport", "protocol"}

\* a mutation can also time out after the backend applied it
MutationOutcomes == {"ok", "transport", "protocol", "timeout"}

\* the REST endpoint has no error list
RestOutcomes == {"ok", "transport", "timeout"}

Applied(outcome) == outcome \in {"ok", "timeout"}

\* _graphql_request / _rest_request: the exception the request ends in, if any
_graphql_request(outcome) ==
    CASE outcome \in {"transport", "timeout"} -> HTTPError
      [] outcome = "protocol" -> ValueError("GraphQL errors", << >>, << >>)
      [] OTHER -> NoError

_rest_request(outcome) ==
    IF outcome \in {"transport", "timeout"} THEN HTTPError ELSE NoError

NameNodes(names) == [i \in 1..Len(names) |-> [name |-> names[i]]]

LoginNodes(logins) == [i \in 1..Len(logins) |-> [login |-> logins[i]]]

MilestoneNode(m) == IF m = "" THEN << >> ELSE <<[title |-> m]>>

\* the issue selection of the GraphQL queries: id is the node id, the
\* sub-collections are nested {nodes: [...]}
GraphqlIssue(n) ==
    [id |-> IdStr(NodeId(n)), number |-> n,
     title |-> issues[n].title, body |-> issues[n].body,
     labels |-> [shape |-> "dict",
                 nodes |-> NameNodes(Page(issues[n].labels, LabelsFirst))],
     assignees |-> [shape |-> "dict",
                    nodes |-> LoginNodes(Page(issues[n].assignees, AssigneesFirst))],
     milestone |-> MilestoneNode(issues[n].milestone)]

\* the issue resource of the REST endpoint: id is the integer database id
\* (the node id is another member, node_id), the sub-collections are flat.
\* No request of the adapter reads the database id back, so the backend
\* state does not keep it.
RestIssue(n, issue, dbId) ==
    [id |-> IdInt(dbId), node_id |-> IdStr(NodeId(n)), number |-> n,
     title |-> issue.title, body |-> issue.body,
     labels |-> [shape |-> "list", items |-> NameNodes(issue.labels)],
     assignees |-> [shape |-> "list", items |-> LoginNodes(issue.assignees)],
     milestone |-> MilestoneNode(issue.milestone)]

\* repository(owner, name) { issue(number) }: the issue or null
IssueByNumber(number) ==
    IF number \in 1..Len(issues) THEN <<GraphqlIssue(number)>> ELSE << >>

\* node(id) { ... on Issue }: the issue or null
IssueByNodeId(id) ==
    LET ns == {n \in 1..Len(issues) : NodeId(n) = id}
    IN  IF ns = {} THEN << >> ELSE <<GraphqlIssue(CHOOSE n \in ns : TRUE)>>

-----------------------------------------------------------------------------
(* The response normalizer.                                                *)

NoItem == [present |-> FALSE, fieldValues |-> << >>]

PyStr(id) == IF id.kind = "int" THEN PyStrInt(id.i) ELSE id.s

\* one node of fieldValues: its __typename and its "name", << >> when the
\* node has no such key
FieldValue(typename, name) == [typename |-> typename, name |-> name]

\* the loop leaving at the first single-select value
RECURSIVE ScanStatus_first(_, _)
ScanStatus_first(nodes, status) ==
    IF Len(nodes) = 0 THEN status
    ELSE IF Head(nodes).typename = "ProjectV2ItemFieldSingleSelectValue"
    THEN (IF Len(Head(nodes).name) > 0 THEN Head(nodes).name[1] ELSE status)
    ELSE ScanStatus_first(Tail(nodes), status)

\* the loop of client.py:237-239 over the item's field values:
\* status = field.get("name", status) for every single-select value
RECURSIVE ScanStatus(_, _)
ScanStatus(nodes, status) ==
    IF Len(nodes) = 0 THEN status
    ELSE ScanStatus(Tail(nodes),
                    IF /\ Head(nodes).typename = "ProjectV2ItemFieldSingleSelectValue"
                       /\ Len(Head(nodes).name) > 0
                    THEN Head(nodes).name[1] ELSE status)

\* the normalizer reading assignees in the nested shape only
_parse_issue_to_ticket_nested(issue, project_item) ==
    LET labels_data == issue.labels
        labels == IF labels_data.shape = "dict"
                  THEN [i \in 1..Len(labels_data.nodes) |-> labels_data.nodes[i].name]
                  ELSE [i \in 1..Len(labels_data.items) |-> labels_data.items[i].name]
        assignees_data == issue.assignees
        assignees ==
            IF assignees_data.shape = "dict"
            THEN [i \in 1..Len(assignees_data.nodes) |-> assignees_data.nodes[i].login]
            ELSE << >>
        milestone == IF Len(issue.milestone) > 0 THEN issue.milestone[1].title ELSE ""
        status == IF project_item.present /\ Len(project_item.fieldValues) > 0
                  THEN ScanStatus(project_item.fieldValues, TicketStatus_TODO)
                  ELSE TicketStatus_TODO
    IN  Ticket(PyStr(issue.id), issue.number, issue.title, issue.body, status,
               labels, assignees, milestone)

_parse_issue_to_ticket(issue, project_item) ==
    LET labels_data == issue.labels
        labels == IF labels_data.shape = "dict"
                  THEN [i \in 1..Len(labels_data.nodes) |-> labels_data.nodes[i].name]
                  ELSE [i \in 1..Len(labels_data.items) |-> labels_data.items[i].name]
        assignees_data == issue.assignees
        assignees ==
            IF assignees_data.shape = "dict"
            THEN [i \in 1..Len(assignees_data.nodes) |-> assignees_data.nodes[i].login]
            ELSE [i \in 1..Len(assignees_data.items) |-> assignees_data.items[i].login]
        milestone == IF Len(issue.milestone) > 0 THEN issue.milestone[1].title ELSE ""
        status == IF project_item.present /\ Len(project_item.fieldValues) > 0
                  THEN ScanStatus(project_item.fieldValues, TicketStatus_TODO)
                  ELSE TicketStatus_TODO
    IN  Ticket(PyStr(issue.id), issue.number, issue.title, issue.body, status,
               labels, assignees, milestone)

-----------------------------------------------------------------------------
(* get_ticket: one query, then the normalizer.                             *)

Fetched(ok, ticket, err, req) == [ok |-> ok, ticket |-> ticket, err |-> err, req |-> req]

\* get_ticket taking only numbers without a leading zero as numbers
get_ticket_nozero(ticket_id, outcome) ==
    LET byNumber == isdigit(ticket_id) /\ ticket_id[1] # "0"
        issue == IF byNumber THEN IssueByNumber(PyInt(ticket_id))
                 ELSE IssueByNodeId(ticket_id)
        req == Request(IF byNumber THEN "issue(number)" ELSE "node(id)",
                       ticket_id, outcome)
        exc == _graphql_request(outcome)
    IN  IF exc # NoError THEN Fetched(FALSE, NoTicket, exc, req)
        ELSE IF Len(issue) = 0
        THEN Fetched(FALSE, NoTicket,
                     ValueError("Ticket not found", ticket_id, << >>), req)
        ELSE Fetched(TRUE, _parse_issue_to_ticket(issue[1], NoItem), NoError, req)

\* get_ticket without the check of client.py:441-442
get_ticket_nocheck(ticket_id, outcome) ==
    LET byNumber == isdigit(ticket_id)
        issue == IF byNumber THEN IssueByNumber(PyInt(ticket_id))
                 ELSE IssueByNodeId(ticket_id)
        req == Request(IF byNumber THEN "issue(number)" ELSE "node(id)",
                       ticket_id, outcome)
        exc == _graphql_request(outcome)
    IN  IF exc # NoError THEN Fetched(FALSE, NoTicket, exc, req)
        ELSE IF Len(issue) = 0
        THEN Fetched(TRUE, NoTicket, NoError, req)
        ELSE Fetched(TRUE, _parse_issue_to_ticket(issue[1], NoItem), NoError, req)

\* get_ticket giving the normalizer a project item of the issue
get_ticket_item(ticket_id, outcome) ==
    LET byNumber == isdigit(ticket_id)
        issue == IF byNumber THEN IssueByNumber(PyInt(ticket_id))
                 ELSE IssueByNodeId(ticket_id)
        req == Request(IF byNumber THEN "issue(number)" ELSE "node(id)",
                       ticket_id, outcome)
        exc == _graphql_request(outcome)
        item == [present |-> TRUE,
                 fieldValues |-> <<FieldValue("ProjectV2ItemFieldSingleSelectValue",
                                              <<<<"D", "o", "n", "e">>>>)>>]
    IN  IF exc # NoError THEN Fetched(FALSE, NoTicket, exc, req)
        ELSE IF Len(issue) = 0
        THEN Fetched(FALSE, NoTicket,
                     ValueError("Ticket not found", ticket_id, << >>), req)
        ELSE Fetched(TRUE, _parse_issue_to_ticket(issue[1], item), NoError, req)

get_ticket(ticket_id, outcome) ==
    LET byNumber == isdigit(ticket_id)
        issue == IF byNumber THEN IssueByNumber(PyInt(ticket_id))
                 ELSE IssueByNodeId(ticket_id)
        req == Request(IF byNumber THEN "issue(number)" ELSE "node(id)",
                       ticket_id, outcome)
        exc == _graphql_request(outcome)
    IN  IF exc # NoError THEN Fetched(FALSE, NoTicket, exc, req)
        ELSE IF Len(issue) = 0
        THEN Fetched(FALSE, NoTicket,
                     ValueError("Ticket not found", ticket_id, << >>), req)
        ELSE Fetched(TRUE, _parse_issue_to_ticket(issue[1], NoItem), NoError, req)

-----------------------------------------------------------------------------
(* Invocations.                                                            *)

NoProject == 0          \* project_number: int | None = None

NoOp == [name |-> "", ticket_id |-> NoId, other_id |-> NoId, title |-> "",
         status |-> << >>, project_number |-> NoProject,
         body |-> "", labels |-> << >>, value |-> "", outer |-> "",
         assignee |-> "", label |-> "", milestone |-> "", limit |-> 0,
         labels_shape |-> "", assignees_shape |-> "", project_item |-> NoItem]

NoLocals == [first |-> NoTicket, second |-> NoTicket, ticket |-> NoTicket,
             project_num |-> NoProject, pn |-> NoProject, ret |-> "",
             project_id |-> NoId, field_id |-> NoId, options |-> << >>,
             option_id |-> NoId, item_id |-> NoId, subtask |-> NoTicket,
             parent_ticket |-> NoTicket, label |-> NoId]

NoSnapshot == [issues |-> << >>, comments |-> << >>, board |-> << >>,
               project_id |-> NoId]

\* the backend and the cached project id as they are when an invocation begins
Snapshot == [issues |-> issues, comments |-> comments, board |-> board,
             project_id |-> self._project_id]

\* a caller invokes operation o: the coroutine runs up to its first await
Invoke(c, o, label) ==
    /\ pc[c] = "idle"
    /\ pc' = [pc EXCEPT ![c] = label]
    /\ op' = [op EXCEPT ![c] = o]
    /\ loc' = [loc EXCEPT ![c] = NoLocals]
    /\ log' = [log EXCEPT ![c] = << >>]
    /\ res' = [res EXCEPT ![c] = NoResult]
    /\ pre' = [pre EXCEPT ![c] = Snapshot]

\* the coroutine returns or raises
Finish(c, r) ==
    /\ pc' = [pc EXCEPT ![c] = "done"]
    /\ res' = [res EXCEPT ![c] = r]

Goto(c, label) ==
    /\ pc' = [pc EXCEPT ![c] = label]
    /\ UNCHANGED res

Logged(c, req) == log' = [log EXCEPT ![c] = Append(@, req)]

\* the operations whose returned ticket the caller keeps for its next call
KeptOps == {"add_label", "add_branch", "add_pull_request", "add_subtask"}

\* the caller takes the result; it keeps a returned ticket for its next call only
Return(c) ==
    /\ pc[c] = "done"
    /\ pc' = [pc EXCEPT ![c] = "idle"]
    /\ op' = [op EXCEPT ![c] = NoOp]
    /\ loc' = [loc EXCEPT ![c] = NoLocals]
    /\ log' = [log EXCEPT ![c] = << >>]
    /\ res' = [res EXCEPT ![c] = NoResult]
    /\ pre' = [pre EXCEPT ![c] = NoSnapshot]
    /\ held' = IF op[c].name = "create_ticket" /\ res[c].ok THEN held
               ELSE IF op[c].name \in KeptOps /\ res[c].ok THEN <<res[c].ticket>>
               ELSE << >>
    /\ UNCHANGED <<backend, self>>

-----------------------------------------------------------------------------
(* create_ticket (client.py:264-307).                                      *)

DbIds == 1..MaxDbId

StartCreateTicket(c) ==
    \E title \in Titles :
        /\ Len(issues) < MaxIssues
        /\ Invoke(c, [NoOp EXCEPT !.name = "create_ticket", !.title = title],
                  "create_ticket")
        /\ UNCHANGED <<backend, self, held>>

\* POST /repos/{owner}/{repo}/issues: the backend numbers the issue and
\* answers with the issue resource, whose id is a database id of its choosing
CreateTicketPost(c) ==
    /\ pc[c] = "create_ticket"
    /\ \E outcome \in RestOutcomes, dbId \in DbIds :
        LET n == Len(issues) + 1
            issue == [title |-> op[c].title, body |-> "", labels |-> << >>,
                      assignees |-> << >>, milestone |-> ""]
            exc == _rest_request(outcome)
            ticket == _parse_issue_to_ticket(RestIssue(n, issue, dbId), NoItem)
        IN  /\ IF Applied(outcome)
               THEN /\ issues' = Append(issues, issue)
                    /\ comments' = Append(comments, << >>)
               ELSE UNCHANGED <<issues, comments>>
            /\ Logged(c, Request("POST issues", << >>, outcome))
            /\ IF exc # NoError
               THEN Finish(c, Raised(exc)) /\ held' = << >>
               ELSE Finish(c, Returned(ticket)) /\ held' = <<ticket>>
    /\ UNCHANGED <<projects, board, self, op, loc, pre>>

-----------------------------------------------------------------------------
(* get_ticket as an operation (client.py:370-444).                         *)

\* ticket identifiers callers pass: the number and the node id of every issue
\* that exists and of the next one, which does not, a number with a leading
\* zero, and the id of a ticket create_ticket returned
NumberIds == {PyStrInt(n) : n \in 1..(Len(issues) + 1)}

NodeIds == {NodeId(n) : n \in 1..(Len(issues) + 1)}

PaddedIds == {<<"0">> \o PyStrInt(n) : n \in 1..(Len(issues) + 1)}

HeldIds == {held[i].id : i \in 1..Len(held)}

StartGetTicket(c) ==
    \E ticket_id \in NumberIds \cup NodeIds \cup PaddedIds \cup HeldIds :
        /\ Invoke(c, [NoOp EXCEPT !.name = "get_ticket", !.ticket_id = ticket_id],
                  "get_ticket")
        /\ UNCHANGED <<backend, self, held>>

GetTicketQuery(c) ==
    /\ pc[c] = "get_ticket"
    /\ \E outcome \in QueryOutcomes :
        LET r == get_ticket(op[c].ticket_id, outcome)
        IN  /\ Logged(c, r.req)
            /\ Finish(c, IF r.ok THEN Returned(r.ticket) ELSE Raised(r.err))
    /\ UNCHANGED <<backend, self, op, loc, pre, held>>

-----------------------------------------------------------------------------
(* Specification: a repository, empty at first; tickets are created and     *)
(* fetched.                                                                *)

NoProjects == << >>

InitAdapter(project_number) ==
    [owner |-> "acme", repo |-> "tracker",
     project_number |-> project_number, _project_id |-> NoId,
     _repo_id |-> NoId, _status_field_id |-> NoId]

InitCallers ==
    /\ pc = [c \in Callers |-> "idle"]
    /\ op = [c \in Callers |-> NoOp]
    /\ loc = [c \in Callers |-> NoLocals]
    /\ log = [c \in Callers |-> << >>]
    /\ res = [c \in Callers |-> NoResult]
    /\ pre = [c \in Callers |-> NoSnapshot]
    /\ held = << >>

Init ==
    /\ issues = << >>
    /\ comments = << >>
    /\ projects = NoProjects
    /\ board = NoProjects
    /\ self = InitAdapter(NoProject)
    /\ InitCallers

Next ==
    \E c \in Callers :
        \/ StartCreateTicket(c)
        \/ CreateTicketPost(c)
        \/ StartGetTicket(c)
        \/ GetTicketQuery(c)
        \/ Return(c)

Spec == Init /\ [][Next]_vars

-----------------------------------------------------------------------------
(* Properties of create_ticket and get_ticket.                             *)

Done(c, name) == pc[c] = "done" /\ op[c].name = name

\* no request of the invocation ended in a transport or protocol failure
NoFault(c) == \A i \in 1..Len(log[c]) : log[c][i].out = "ok"

OnlyDigits(x) == x # << >> /\ \A i \in 1..Len(x) : x[i] \in DigitSet

\* the issues an identifier denotes: by its number or by its node id
EntityOf(x) ==
    {n \in 1..Len(issues) : x = NodeId(n) \/ (OnlyDigits(x) /\ PyInt(x) = n)}

\* the canonical record of issue n, read off the backend state
Canonical(n) ==
    [id |-> NodeId(n), number |-> n, title |-> issues[n].title,
     body |-> issues[n].body, status |-> TicketStatus_TODO,
     labels |-> issues[n].labels, assignees |-> issues[n].assignees,
     milestone |-> issues[n].milestone, branch |-> "",
     pull_requests |-> << >>, subtasks |-> << >>]

\* C1: create(title = T) succeeds with a ticket R titled T, and a following
\* get(R.id) returns the created ticket: same entity (number), title T.
C1_RoundTrip ==
    \A c \in DOMAIN pc :
        /\ (Done(c, "create_ticket") /\ NoFault(c)) =>
                (res[c].ok /\ res[c].ticket.title = op[c].title)
        /\ (Done(c, "get_ticket") /\ NoFault(c) /\ Len(held) > 0
                /\ op[c].ticket_id = held[1].id) =>
                (/\ res[c].ok
                 /\ res[c].ticket.number = held[1].number
                 /\ res[c].ticket.title = held[1].title)

\* C6: get(x) uses the number lookup exactly when x is all digits and the
\* node-id lookup otherwise, and either way a successful query of an existing
\* issue returns the canonical record of that issue.
C6_GetDispatch ==
    \A c \in DOMAIN pc :
        Done(c, "get_ticket") =>
            /\ Len(log[c]) = 1
            /\ log[c][1].req = (IF OnlyDigits(op[c].ticket_id)
                                THEN "issue(number)" ELSE "node(id)")
            /\ \A n \in EntityOf(op[c].ticket_id) :
                    NoFault(c) => (res[c].ok /\ res[c].ticket = Canonical(n))

C6_Witness ==
    \E c \in DOMAIN pc :
        /\ Done(c, "get_ticket") /\ res[c].ok
        /\ op[c].ticket_id = NodeId(2)
        /\ res[c].ticket.title # issues[1].title

\* C7: on either lookup path, get(x) for an x the backend has no entity for
\* raises and returns no ticket; when the query itself was answered, the
\* error is "Ticket x not found".
C7_GetNotFound ==
    \A c \in DOMAIN pc :
        (Done(c, "get_ticket") /\ EntityOf(op[c].ticket_id) = {}) =>
            /\ ~res[c].ok
            /\ res[c].ticket = NoTicket
            /\ NoFault(c) =>
                    res[c].err = ValueError("Ticket not found", op[c].ticket_id, << >>)

C7_Witness ==
    \E c \in DOMAIN pc :
        /\ Done(c, "get_ticket") /\ NoFault(c)
        /\ EntityOf(op[c].ticket_id) = {}
        /\ ~OnlyDigits(op[c].ticket_id)
        /\ Len(issues) > 0

-----------------------------------------------------------------------------
(* add_comment and the relational operations (client.py:503-548, 811-826,  *)
(* 1039-1112).  Each fetches both tickets, then add_comment fetches the     *)
(* first again and posts the comment.                                      *)

RelationOps == {"add_parent", "add_blocked_by", "add_blocking", "add_subtask"}

Phrase(name) ==
    CASE name = "add_parent" -> "Parent: #"
      [] name = "add_blocked_by" -> "Blocked by: #"
      [] name = "add_blocking" -> "Blocking: #"
      [] name = "add_subtask" -> "Subtask: #"

\* f"{phrase}{other.number} {other.title}"
CommentBody(name, other) ==
    [prefix |-> Phrase(name), number |-> PyStrInt(other.number), title |-> other.title]

RECURSIVE SumLen(_)
SumLen(streams) ==
    IF Len(streams) = 0 THEN 0 ELSE Len(Head(streams)) + SumLen(Tail(streams))

TotalComments == SumLen(comments)

RelIds == NumberIds \cup NodeIds

StartRelation(c) ==
    \E name \in RelationOps, ticket_id \in RelIds, other_id \in RelIds :
        /\ TotalComments < MaxComments
        /\ Invoke(c, [NoOp EXCEPT !.name = name, !.ticket_id = ticket_id,
                                  !.other_id = other_id], "rel_first")
        /\ UNCHANGED <<backend, self, held>>

\* child / blocked / blocker / parent = await self.get_ticket(ticket_id)
\* the first fetch of add_subtask, create_subtask removing the ticket it
\* created when the fetch fails
RelGetFirst_cleanup(c) ==
    /\ pc[c] = "rel_first"
    /\ \E outcome \in QueryOutcomes :
        LET r == get_ticket(op[c].ticket_id, outcome)
        IN  /\ Logged(c, r.req)
            /\ IF r.ok
               THEN /\ loc' = [loc EXCEPT ![c].first = r.ticket]
                    /\ Goto(c, "rel_second")
                    /\ UNCHANGED <<issues, comments>>
               ELSE /\ Finish(c, Raised(r.err))
                    /\ UNCHANGED loc
                    /\ IF op[c].outer = "create_subtask"
                       THEN issues' = pre[c].issues /\ comments' = pre[c].comments
                       ELSE UNCHANGED <<issues, comments>>
    /\ UNCHANGED <<projects, board, self, op, pre, held>>

\* parent = await self.get_ticket(parent_id): the first fetch of a relation
RelGetFirst(c) ==
    /\ pc[c] = "rel_first"
    /\ \E outcome \in QueryOutcomes :
        LET r == get_ticket(op[c].ticket_id, outcome)
        IN  /\ Logged(c, r.req)
            /\ IF r.ok
               THEN /\ loc' = [loc EXCEPT ![c].first = r.ticket]
                    /\ Goto(c, "rel_second")
               ELSE /\ Finish(c, Raised(r.err))
                    /\ UNCHANGED loc
    /\ UNCHANGED <<backend, self, op, pre, held>>

\* the same, but going on without the first ticket when the fetch raised
RelGetSecond_unchecked(c) ==
    /\ pc[c] = "rel_second"
    /\ \E outcome \in QueryOutcomes :
        LET r == get_ticket(op[c].other_id, outcome)
        IN  /\ Logged(c, r.req)
            /\ loc' = [loc EXCEPT ![c].second = r.ticket]
            /\ Goto(c, "add_comment_get")
    /\ UNCHANGED <<backend, self, op, pre, held>>

\* parent / blocker / blocked / subtask = await self.get_ticket(other id)
RelGetSecond(c) ==
    /\ pc[c] = "rel_second"
    /\ \E outcome \in QueryOutcomes :
        LET r == get_ticket(op[c].other_id, outcome)
        IN  /\ Logged(c, r.req)
            /\ IF r.ok
               THEN /\ loc' = [loc EXCEPT ![c].second = r.ticket]
                    /\ Goto(c, "add_comment_get")
               ELSE /\ Finish(c, Raised(r.err))
                    /\ UNCHANGED loc
    /\ UNCHANGED <<backend, self, op, pre, held>>

\* add_comment: ticket = await self.get_ticket(ticket_id)
AddCommentGetTicket(c) ==
    /\ pc[c] = "add_comment_get"
    /\ \E outcome \in QueryOutcomes :
        LET r == get_ticket(op[c].ticket_id, outcome)
        IN  /\ Logged(c, r.req)
            /\ IF r.ok
               THEN /\ loc' = [loc EXCEPT ![c].ticket = r.ticket]
                    /\ Goto(c, "add_comment_mutation")
               ELSE /\ Finish(c, Raised(r.err))
                    /\ UNCHANGED loc
    /\ UNCHANGED <<backend, self, op, pre, held>>

\* the issues the addComment mutation's subjectId resolves to
Subject(subject_id) == {n \in 1..Len(issues) : NodeId(n) = subject_id}

\* add_subtask's result without the append of client.py:825
SubtaskResult_noappend(parent, subtask_id) == parent

\* parent.subtasks.append(subtask_id); return parent
SubtaskResult(parent, subtask_id) ==
    [parent EXCEPT !.subtasks = Append(@, subtask_id)]

\* what follows `await self.add_comment(...)`, were no operation to re-fetch
AfterComment_norefetch(c) ==
    Finish(c, Returned(SubtaskResult(loc[c].first, op[c].other_id)))

\* what follows `await self.add_comment(...)` in the calling operation;
\* create_subtask drops add_subtask's result and returns the ticket it created
AfterComment(c) ==
    IF op[c].name = "add_subtask"
    THEN Finish(c, Returned(IF op[c].outer = "create_subtask" THEN loc[c].subtask
                            ELSE SubtaskResult(loc[c].first, op[c].other_id)))
    ELSE Goto(c, "rel_refetch")

\* add_comment: the addComment mutation on subject_id = ticket.id
AddCommentMutation(c) ==
    /\ pc[c] = "add_comment_mutation"
    /\ \E outcome \in MutationOutcomes :
        LET subject_id == loc[c].ticket.id
            body == CommentBody(op[c].name, loc[c].second)
            \* a subjectId that is no node: the endpoint answers with errors
            out == IF Subject(subject_id) = {} THEN "protocol" ELSE outcome
            exc == _graphql_request(out)
        IN  /\ IF Applied(out)
               THEN comments' = [comments EXCEPT
                        ![CHOOSE n \in Subject(subject_id) : TRUE] = Append(@, body)]
               ELSE UNCHANGED comments
            /\ Logged(c, [Request("addComment", subject_id, out) EXCEPT !.body = body])
            /\ IF exc # NoError THEN Finish(c, Raised(exc)) ELSE AfterComment(c)
    /\ UNCHANGED <<issues, projects, board, self, op, loc, pre, held>>

\* return await self.get_ticket(ticket_id)
RelRefetch(c) ==
    /\ pc[c] = "rel_refetch"
    /\ \E outcome \in QueryOutcomes :
        LET r == get_ticket(op[c].ticket_id, outcome)
        IN  /\ Logged(c, r.req)
            /\ Finish(c, IF r.ok THEN Returned(r.ticket) ELSE Raised(r.err))
    /\ UNCHANGED <<backend, self, op, loc, pre, held>>

(* Specification: a repository with two issues; tickets are related.       *)

ExistingIssue(title) ==
    [title |-> title, body |-> "", labels |-> << >>, assignees |-> << >>,
     milestone |-> ""]

InitRel ==
    /\ issues = <<ExistingIssue("T1"), ExistingIssue("T2")>>
    /\ comments = << << >>, << >> >>
    /\ projects = NoProjects
    /\ board = NoProjects
    /\ self = InitAdapter(NoProject)
    /\ InitCallers

NextRel ==
    \E c \in Callers :
        \/ StartRelation(c)
        \/ RelGetFirst(c)
        \/ RelGetSecond(c)
        \/ AddCommentGetTicket(c)
        \/ AddCommentMutation(c)
        \/ RelRefetch(c)
        \/ Return(c)

SpecRel == InitRel /\ [][NextRel]_vars

-----------------------------------------------------------------------------
(* Properties of the relational operations.                                *)

Relating(c) == pc[c] = "done" /\ op[c].name \in RelationOps

TheEntity(x) == CHOOSE n \in EntityOf(x) : TRUE

\* the positions of the invocation's comment mutations in its request log
CommentRequests(c) == {i \in 1..Len(log[c]) : log[c][i].req = "addComment"}

IsFetch(r, ticket_id) ==
    r.req \in {"issue(number)", "node(id)"} /\ r.arg = ticket_id /\ r.out = "ok"

SubtaskComment(n) ==
    [prefix |-> "Subtask: #", number |-> PyStrInt(n), title |-> issues[n].title]

\* the comment streams after exactly one comment was added, to issue n
OneCommentAdded(c, n, body) ==
    comments = [pre[c].comments EXCEPT ![n] = Append(@, body)]

\* C8 as claimed: addSubtask(A, B) returns A's ticket with B's backend id
\* appended to its subtasks, in whichever form B was given, and adds to A
\* exactly one comment "Subtask: #<B.number> <B.title>".
C8_SubtaskBackendId ==
    \A c \in DOMAIN pc :
        (/\ Done(c, "add_subtask") /\ NoFault(c)
         /\ EntityOf(op[c].ticket_id) # {} /\ EntityOf(op[c].other_id) # {}) =>
            LET A == TheEntity(op[c].ticket_id)
                B == TheEntity(op[c].other_id)
            IN  /\ res[c].ok
                /\ res[c].ticket = [Canonical(A) EXCEPT !.subtasks = <<NodeId(B)>>]
                /\ OneCommentAdded(c, A, SubtaskComment(B))

\* C8 (amended): addSubtask(A, B) returns A's ticket with the identifier the
\* caller passed for B appended to its subtasks, verbatim (B's backend id only
\* when the caller passed the backend id), and adds to A exactly one comment
\* "Subtask: #<B.number> <B.title>".
C8_SubtaskAsPassed ==
    \A c \in DOMAIN pc :
        (/\ Done(c, "add_subtask") /\ NoFault(c)
         /\ EntityOf(op[c].ticket_id) # {} /\ EntityOf(op[c].other_id) # {}) =>
            LET A == TheEntity(op[c].ticket_id)
                B == TheEntity(op[c].other_id)
            IN  /\ res[c].ok
                /\ res[c].ticket = [Canonical(A) EXCEPT !.subtasks = <<op[c].other_id>>]
                /\ OneCommentAdded(c, A, SubtaskComment(B))

C8_Witness ==
    \E c \in DOMAIN pc :
        /\ Done(c, "add_subtask") /\ res[c].ok
        /\ op[c].ticket_id = NodeId(1)
        /\ op[c].other_id = PyStrInt(2)
        /\ res[c].ticket.subtasks = <<PyStrInt(2)>>
        /\ comments[1] = <<SubtaskComment(2)>>

\* C9: when either ticket of addParent, addBlockedBy, addBlocking or
\* addSubtask does not exist, the operation raises (NotFound once the query
\* was answered) and no comment is posted: no comment mutation is ever issued
\* before both tickets were fetched.
C9_BothResolvedFirst ==
    \A c \in DOMAIN pc :
        /\ \A i \in CommentRequests(c) :
                /\ i > 2
                /\ IsFetch(log[c][1], op[c].ticket_id)
                /\ IsFetch(log[c][2], op[c].other_id)
        /\ (Relating(c) /\ (EntityOf(op[c].ticket_id) = {}
                                \/ EntityOf(op[c].other_id) = {})) =>
                /\ ~res[c].ok
                /\ CommentRequests(c) = {}
                /\ comments = pre[c].comments
                /\ NoFault(c) =>
                        res[c].err = ValueError("Ticket not found",
                            IF EntityOf(op[c].ticket_id) = {}
                            THEN op[c].ticket_id ELSE op[c].other_id, << >>)

C9_Witness ==
    \E c \in DOMAIN pc :
        /\ Done(c, "add_blocked_by") /\ NoFault(c)
        /\ EntityOf(op[c].ticket_id) # {}
        /\ EntityOf(op[c].other_id) = {}
        /\ Len(log[c]) = 2

\* C10 as claimed: a successful addParent, addBlockedBy, addBlocking or
\* addSubtask issues exactly one comment mutation, on the first ticket, and
\* ends with a fetch of that ticket issued after the mutation.
C10_RefetchAfterComment ==
    \A c \in DOMAIN pc :
        (Relating(c) /\ res[c].ok) =>
            /\ Cardinality(CommentRequests(c)) = 1
            /\ \A i \in CommentRequests(c) :
                    /\ log[c][i].arg = NodeId(TheEntity(op[c].ticket_id))
                    /\ i < Len(log[c])
            /\ IsFetch(log[c][Len(log[c])], op[c].ticket_id)

\* C10 (amended): a successful call issues exactly one comment mutation, on
\* the first ticket.  addParent, addBlockedBy and addBlocking then fetch that
\* ticket again and return it.  addSubtask issues no request after the
\* mutation: it returns the parent fetched by its first request, before the
\* mutation, with the subtask id appended.
C10_RefetchExceptSubtask ==
    \A c \in DOMAIN pc :
        (Relating(c) /\ res[c].ok) =>
            /\ CommentRequests(c) = {4}
            /\ log[c][4].arg = NodeId(TheEntity(op[c].ticket_id))
            /\ IsFetch(log[c][1], op[c].ticket_id)
            /\ IF op[c].name = "add_subtask"
               THEN /\ Len(log[c]) = 4
                    /\ res[c].ticket = [loc[c].first EXCEPT
                                            !.subtasks = <<op[c].other_id>>]
               ELSE /\ Len(log[c]) = 5
                    /\ IsFetch(log[c][5], op[c].ticket_id)
                    /\ res[c].ticket = Canonical(TheEntity(op[c].ticket_id))

C10_Witness ==
    \E c \in DOMAIN pc :
        /\ Done(c, "add_subtask") /\ res[c].ok
        /\ Len(log[c]) = 4
        /\ log[c][4].req = "addComment" /\ log[c][4].out = "ok"

-----------------------------------------------------------------------------
(* Projects: _get_project_id (client.py:122-201).                          *)

Scopes == <<"repository", "user", "organization">>

FieldsFirst == 20       \* fields(first: 20)

ProjectId(n) == <<"P", "_">> \o PyStrInt(n)

FieldId(n, k) == <<"F", "_">> \o PyStrInt(n) \o <<"_">> \o PyStrInt(k)

ItemId(n, issue) == <<"V", "_">> \o PyStrInt(n) \o <<"_">> \o PyStrInt(issue)

\* the projects a node id resolves to
ProjectOf(project_id) == {n \in 1..Len(projects) : ProjectId(n) = project_id}

\* projectV2(number) under one scope: the project or null
ProjectInScope(scope, number) ==
    number \in 1..Len(projects) /\ projects[number].scope = scope

\* _get_project_id without the cache check of client.py:131-132
CallGetProjectId_nocache(c, l, project_number, ret) ==
    LET pn == IF project_number # NoProject THEN project_number
              ELSE self.project_number
    IN  IF pn = NoProject
        THEN /\ loc' = [loc EXCEPT ![c] = l]
             /\ Finish(c, Raised(ValueError("Project number not specified", << >>, << >>)))
        ELSE /\ loc' = [loc EXCEPT ![c] = [l EXCEPT !.pn = pn, !.ret = ret]]
             /\ Goto(c, "project_repository")

\* _get_project_id trying the user scope first
CallGetProjectId_userfirst(c, l, project_number, ret) ==
    LET pn == IF project_number # NoProject THEN project_number
              ELSE self.project_number
    IN  IF self._project_id # NoId
        THEN /\ loc' = [loc EXCEPT ![c] = [l EXCEPT !.project_id = self._project_id]]
             /\ Goto(c, ret)
        ELSE IF pn = NoProject
        THEN /\ loc' = [loc EXCEPT ![c] = l]
             /\ Finish(c, Raised(ValueError("Project number not specified", << >>, << >>)))
        ELSE /\ loc' = [loc EXCEPT ![c] = [l EXCEPT !.pn = pn, !.ret = ret]]
             /\ Goto(c, "project_user")

\* _get_project_id using the cached id only when no number is passed
CallGetProjectId_explicit(c, l, project_number, ret) ==
    LET pn == IF project_number # NoProject THEN project_number
              ELSE self.project_number
    IN  IF self._project_id # NoId /\ project_number = NoProject
        THEN /\ loc' = [loc EXCEPT ![c] = [l EXCEPT !.project_id = self._project_id]]
             /\ Goto(c, ret)
        ELSE IF pn = NoProject
        THEN /\ loc' = [loc EXCEPT ![c] = l]
             /\ Finish(c, Raised(ValueError("Project number not specified", << >>, << >>)))
        ELSE /\ loc' = [loc EXCEPT ![c] = [l EXCEPT !.pn = pn, !.ret = ret]]
             /\ Goto(c, "project_repository")

\* `await self._get_project_id(project_number)` with the locals l so far: the
\* cached id, or the error, or on to the first scope's query; then on at ret
CallGetProjectId(c, l, project_number, ret) ==
    LET pn == IF project_number # NoProject THEN project_number
              ELSE self.project_number
    IN  IF self._project_id # NoId
        THEN /\ loc' = [loc EXCEPT ![c] = [l EXCEPT !.project_id = self._project_id]]
             /\ Goto(c, ret)
        ELSE IF pn = NoProject
        THEN /\ loc' = [loc EXCEPT ![c] = l]
             /\ Finish(c, Raised(ValueError("Project number not specified", << >>, << >>)))
        ELSE /\ loc' = [loc EXCEPT ![c] = [l EXCEPT !.pn = pn, !.ret = ret]]
             /\ Goto(c, "project_repository")

\* a try block that raises as soon as its scope has no such project
ProjectScopeQuery_first(c, k) ==
    /\ pc[c] = "project_" \o Scopes[k]
    /\ \E outcome \in QueryOutcomes :
        LET exc == _graphql_request(outcome)
            found == ProjectInScope(Scopes[k], loc[c].pn)
        IN  /\ Logged(c, Request("projectV2 " \o Scopes[k], PyStrInt(loc[c].pn), outcome))
            /\ IF exc.exc = "HTTPError"
               THEN /\ Finish(c, Raised(exc))
                    /\ UNCHANGED <<self, loc>>
               ELSE IF exc = NoError /\ found
               THEN /\ self' = [self EXCEPT !._project_id = ProjectId(loc[c].pn)]
                    /\ loc' = [loc EXCEPT ![c].project_id = ProjectId(loc[c].pn)]
                    /\ Goto(c, loc[c].ret)
               ELSE /\ Finish(c, Raised(ValueError("Project not found",
                                                   PyStrInt(loc[c].pn), Scopes)))
                    /\ UNCHANGED <<self, loc>>
    /\ UNCHANGED <<backend, op, pre, held>>

\* a try block storing the id it asked for although no scope has the project
ProjectScopeQuery_poison(c, k) ==
    /\ pc[c] = "project_" \o Scopes[k]
    /\ \E outcome \in QueryOutcomes :
        LET exc == _graphql_request(outcome)
            found == ProjectInScope(Scopes[k], loc[c].pn)
        IN  /\ Logged(c, Request("projectV2 " \o Scopes[k], PyStrInt(loc[c].pn), outcome))
            /\ IF exc.exc = "HTTPError"
               THEN /\ Finish(c, Raised(exc))
                    /\ UNCHANGED <<self, loc>>
               ELSE IF exc = NoError /\ found
               THEN /\ self' = [self EXCEPT !._project_id = ProjectId(loc[c].pn)]
                    /\ loc' = [loc EXCEPT ![c].project_id = ProjectId(loc[c].pn)]
                    /\ Goto(c, loc[c].ret)
               ELSE IF k < Len(Scopes)
               THEN /\ Goto(c, "project_" \o Scopes[k + 1])
                    /\ UNCHANGED <<self, loc>>
               ELSE /\ Finish(c, Raised(ValueError("Project not found",
                                                   PyStrInt(loc[c].pn), Scopes)))
                    /\ self' = [self EXCEPT !._project_id = ProjectId(loc[c].pn)]
                    /\ UNCHANGED loc
    /\ UNCHANGED <<backend, op, pre, held>>

\* a try block catching every exception of the lookup (`except Exception`)
ProjectScopeQuery_catchall(c, k) ==
    /\ pc[c] = "project_" \o Scopes[k]
    /\ \E outcome \in QueryOutcomes :
        LET exc == _graphql_request(outcome)
            found == ProjectInScope(Scopes[k], loc[c].pn)
        IN  /\ Logged(c, Request("projectV2 " \o Scopes[k], PyStrInt(loc[c].pn), outcome))
            /\ IF exc = NoError /\ found
               THEN /\ self' = [self EXCEPT !._project_id = ProjectId(loc[c].pn)]
                    /\ loc' = [loc EXCEPT ![c].project_id = ProjectId(loc[c].pn)]
                    /\ Goto(c, loc[c].ret)
               ELSE IF k < Len(Scopes)
               THEN /\ Goto(c, "project_" \o Scopes[k + 1])
                    /\ UNCHANGED <<self, loc>>
               ELSE /\ Finish(c, Raised(ValueError("Project not found",
                                                   PyStrInt(loc[c].pn), Scopes)))
                    /\ UNCHANGED <<self, loc>>
    /\ UNCHANGED <<backend, op, pre, held>>

\* one try block of _get_project_id: the query under Scopes[k]
ProjectScopeQuery(c, k) ==
    /\ pc[c] = "project_" \o Scopes[k]
    /\ \E outcome \in QueryOutcomes :
        LET exc == _graphql_request(outcome)
            found == ProjectInScope(Scopes[k], loc[c].pn)
        IN  /\ Logged(c, Request("projectV2 " \o Scopes[k], PyStrInt(loc[c].pn), outcome))
            /\ IF exc.exc = "HTTPError"
               THEN /\ Finish(c, Raised(exc))
                    /\ UNCHANGED <<self, loc>>
               ELSE IF exc = NoError /\ found
               THEN /\ self' = [self EXCEPT !._project_id = ProjectId(loc[c].pn)]
                    /\ loc' = [loc EXCEPT ![c].project_id = ProjectId(loc[c].pn)]
                    /\ Goto(c, loc[c].ret)
               ELSE IF k < Len(Scopes)
               THEN /\ Goto(c, "project_" \o Scopes[k + 1])
                    /\ UNCHANGED <<self, loc>>
               ELSE /\ Finish(c, Raised(ValueError("Project not found",
                                                   PyStrInt(loc[c].pn), Scopes)))
                    /\ UNCHANGED <<self, loc>>
    /\ UNCHANGED <<backend, op, pre, held>>

GetProjectIdRepository(c) == ProjectScopeQuery(c, 1)

GetProjectIdUser(c) == ProjectScopeQuery(c, 2)

GetProjectIdOrganization(c) == ProjectScopeQuery(c, 3)

-----------------------------------------------------------------------------
(* update_status (client.py:615-789).                                      *)

Chars_Todo == <<"T", "o", "d", "o">>

Chars_InProgress == <<"I", "n", " ", "P", "r", "o", "g", "r", "e", "s", "s">>

Chars_Done == <<"D", "o", "n", "e">>

Chars_done == <<"d", "o", "n", "e">>

Chars_open == <<"o", "p", "e", "n">>

Option(id, name) == [id |-> id, name |-> name]

\* a field node: a single-select field, or {} for a field of another type
SingleSelect(id, name, options) ==
    [single |-> TRUE, id |-> id, name |-> name, options |-> options]

OtherField == [single |-> FALSE, id |-> NoId, name |-> "", options |-> << >>]

\* node(id: $projectId) { fields(first: 20) { nodes } }
FieldNodes(project_id) ==
    Page(projects[CHOOSE n \in ProjectOf(project_id) : TRUE].fields, FieldsFirst)

\* the loop of client.py:648-652: the first field named "Status"
StatusFields(fields) ==
    {k \in 1..Len(fields) : fields[k].single /\ fields[k].name = "Status"}

FirstOf(S) == CHOOSE k \in S : \A j \in S : k <= j

\* the loop of client.py:738-741 over options.items()
MatchingOptions(options, status) ==
    {k \in 1..Len(options) : lower(options[k].name) = lower(status)}

OptionNames(options) == [k \in 1..Len(options) |-> options[k].name]

\* the message of client.py:744-747 listing the first option only
StatusNotFound_first(status, options) ==
    ValueError("Status not found", status,
               join(<<",", " ">>, SubSeq(OptionNames(options), 1, 1)))

\* f"Status '{status}' not found. Available options: {available}"
StatusNotFound(status, options) ==
    ValueError("Status not found", status, join(<<",", " ">>, OptionNames(options)))

StatusArgs == {Chars_done, Chars_Todo, Chars_open}

ProjectArgs == 0..(Len(projects) + 1)

StatusIds == NumberIds \cup {NodeId(1)}

StartUpdateStatus(c) ==
    \E ticket_id \in StatusIds, status \in StatusArgs, project_number \in ProjectArgs :
        LET project_num == IF project_number # NoProject THEN project_number
                           ELSE self.project_number
        IN  /\ pc[c] = "idle"
            /\ op' = [op EXCEPT ![c] = [NoOp EXCEPT !.name = "update_status",
                        !.ticket_id = ticket_id, !.status = status,
                        !.project_number = project_number]]
            /\ log' = [log EXCEPT ![c] = << >>]
            /\ pre' = [pre EXCEPT ![c] = Snapshot]
            /\ CallGetProjectId(c, [NoLocals EXCEPT !.project_num = project_num],
                                project_num, "status_fields")
            /\ UNCHANGED <<backend, self, held>>

\* update_status looking the ticket up before it checks the option found
StatusFieldsQuery_unchecked(c) ==
    /\ pc[c] = "status_fields"
    /\ \E outcome \in QueryOutcomes :
        LET exc == _graphql_request(outcome)
            fields == FieldNodes(loc[c].project_id)
            found == StatusFields(fields)
            status_field == fields[FirstOf(found)]
            options == status_field.options
            matching == MatchingOptions(options, op[c].status)
        IN  /\ Logged(c, Request("fields", loc[c].project_id, outcome))
            /\ IF exc # NoError
               THEN Finish(c, Raised(exc)) /\ UNCHANGED loc
               ELSE IF found = {}
               THEN /\ Finish(c, Raised(ValueError("Status field not found in project",
                                                   << >>, << >>)))
                    /\ UNCHANGED loc
               ELSE /\ loc' = [loc EXCEPT ![c].field_id = status_field.id,
                                          ![c].options = options,
                                          ![c].option_id =
                                                IF matching = {} THEN NoId
                                                ELSE options[FirstOf(matching)].id]
                    /\ Goto(c, "item_get_ticket")
    /\ UNCHANGED <<backend, self, op, pre, held>>

\* _get_status_field_id: the fields query and the "Status" field; then the
\* option match of update_status; then into _get_project_item_id
StatusFieldsQuery(c) ==
    /\ pc[c] = "status_fields"
    /\ \E outcome \in QueryOutcomes :
        LET exc == _graphql_request(outcome)
            fields == FieldNodes(loc[c].project_id)
            found == StatusFields(fields)
            status_field == fields[FirstOf(found)]
            options == status_field.options
            matching == MatchingOptions(options, op[c].status)
        IN  /\ Logged(c, Request("fields", loc[c].project_id, outcome))
            /\ IF exc # NoError
               THEN Finish(c, Raised(exc)) /\ UNCHANGED loc
               ELSE IF found = {}
               THEN /\ Finish(c, Raised(ValueError("Status field not found in project",
                                                   << >>, << >>)))
                    /\ UNCHANGED loc
               ELSE IF matching = {}
               THEN /\ Finish(c, Raised(StatusNotFound(op[c].status, options)))
                    /\ UNCHANGED loc
               ELSE /\ loc' = [loc EXCEPT ![c].field_id = status_field.id,
                                          ![c].options = options,
                                          ![c].option_id = options[FirstOf(matching)].id]
                    /\ Goto(c, "item_get_ticket")
    /\ UNCHANGED <<backend, self, op, pre, held>>

\* _get_project_item_id: ticket = await self.get_ticket(ticket_id)
ItemGetTicket(c) ==
    /\ pc[c] = "item_get_ticket"
    /\ \E outcome \in QueryOutcomes :
        LET r == get_ticket(op[c].ticket_id, outcome)
        IN  /\ Logged(c, r.req)
            /\ IF r.ok
               THEN CallGetProjectId(c, [loc[c] EXCEPT !.ticket = r.ticket],
                                     loc[c].project_num, "item_items")
               ELSE Finish(c, Raised(r.err)) /\ UNCHANGED loc
    /\ UNCHANGED <<backend, self, op, pre, held>>

\* items other than the repository's issues: their content is null
ForeignNodes(k) == [i \in 1..k |-> [id |-> <<"V", "x">>, content |-> << >>]]

IssueNodes(n, items) ==
    [i \in 1..Len(items) |->
        [id |-> ItemId(n, items[i].content),
         content |-> <<[id |-> NodeId(items[i].content), number |-> items[i].content]>>]]

\* node(id: $projectId) { items(first: 100) { nodes } }
ItemNodes(project_id) ==
    LET n == CHOOSE m \in ProjectOf(project_id) : TRUE
    IN  Page(ForeignNodes(board[n].foreign) \o IssueNodes(n, board[n].items), ItemsFirst)

\* every item with an issue as content
ItemsOf_any(nodes, ticket) == {i \in 1..Len(nodes) : Len(nodes[i].content) > 0}

\* the loop of client.py:704-707
ItemsOf(nodes, ticket) ==
    {i \in 1..Len(nodes) : Len(nodes[i].content) > 0 /\ nodes[i].content[1].id = ticket.id}

\* _get_project_item_id: the items query and the scan
ItemItemsQuery(c) ==
    /\ pc[c] = "item_items"
    /\ \E outcome \in QueryOutcomes :
        LET exc == _graphql_request(outcome)
            nodes == ItemNodes(loc[c].project_id)
            found == ItemsOf(nodes, loc[c].ticket)
        IN  /\ Logged(c, Request("items", loc[c].project_id, outcome))
            /\ IF exc # NoError
               THEN Finish(c, Raised(exc)) /\ UNCHANGED loc
               ELSE IF found = {}
               THEN /\ Finish(c, Raised(ValueError("Ticket not found in project. Use add_ticket_to_project first.",
                                    PyStrInt(loc[c].ticket.number), << >>)))
                    /\ UNCHANGED loc
               ELSE CallGetProjectId(c, [loc[c] EXCEPT !.item_id = nodes[FirstOf(found)].id],
                                     loc[c].project_num, "status_mutation")
    /\ UNCHANGED <<backend, self, op, pre, held>>

\* updateProjectV2ItemFieldValue: the item's single-select value is set
SetItemStatus(items, n, item_id, option_id) ==
    [i \in 1..Len(items) |->
        IF ItemId(n, items[i].content) = item_id
        THEN [items[i] EXCEPT !.status = option_id] ELSE items[i]]

StatusMutation(c) ==
    /\ pc[c] = "status_mutation"
    /\ \E outcome \in MutationOutcomes :
        LET exc == _graphql_request(outcome)
            n == CHOOSE m \in ProjectOf(loc[c].project_id) : TRUE
        IN  /\ IF Applied(outcome)
               THEN board' = [board EXCEPT ![n].items =
                        SetItemStatus(@, n, loc[c].item_id, loc[c].option_id)]
               ELSE UNCHANGED board
            /\ Logged(c, [Request("updateProjectV2ItemFieldValue", loc[c].item_id, outcome)
                            EXCEPT !.value = loc[c].option_id])
            /\ IF exc # NoError THEN Finish(c, Raised(exc)) ELSE Goto(c, "status_refetch")
    /\ UNCHANGED <<issues, comments, projects, self, op, loc, pre, held>>

\* the loop of client.py:784-787
OptionsWithId(options, option_id) ==
    {k \in 1..Len(options) : options[k].id = option_id}

\* the re-fetched ticket returned as it is
Overridden_not(ticket, options, option_id) == ticket

\* ticket.status = opt_name for the option just set
Overridden(ticket, options, option_id) ==
    IF OptionsWithId(options, option_id) = {} THEN ticket
    ELSE [ticket EXCEPT !.status = options[FirstOf(OptionsWithId(options, option_id))].name]

\* update_status undoing the field update when the re-fetch fails
StatusRefetch_rollback(c) ==
    /\ pc[c] = "status_refetch"
    /\ \E outcome \in QueryOutcomes :
        LET r == get_ticket(op[c].ticket_id, outcome)
        IN  /\ Logged(c, r.req)
            /\ board' = IF r.ok THEN board ELSE pre[c].board
            /\ Finish(c, IF r.ok
                         THEN Returned(Overridden(r.ticket, loc[c].options, loc[c].option_id))
                         ELSE Raised(r.err))
    /\ UNCHANGED <<issues, comments, projects, self, op, loc, pre, held>>

StatusRefetch(c) ==
    /\ pc[c] = "status_refetch"
    /\ \E outcome \in QueryOutcomes :
        LET r == get_ticket(op[c].ticket_id, outcome)
        IN  /\ Logged(c, r.req)
            /\ Finish(c, IF r.ok
                         THEN Returned(Overridden(r.ticket, loc[c].options, loc[c].option_id))
                         ELSE Raised(r.err))
    /\ UNCHANGED <<backend, self, op, loc, pre, held>>

-----------------------------------------------------------------------------
(* add_ticket_to_project (client.py:990-1037).                             *)

StartAddTicketToProject(c) ==
    \E ticket_id \in StatusIds, project_number \in ProjectArgs :
        /\ Invoke(c, [NoOp EXCEPT !.name = "add_ticket_to_project",
                        !.ticket_id = ticket_id, !.project_number = project_number],
                  "atp_get_ticket")
        /\ UNCHANGED <<backend, self, held>>

AtpGetTicket(c) ==
    /\ pc[c] = "atp_get_ticket"
    /\ \E outcome \in QueryOutcomes :
        LET r == get_ticket(op[c].ticket_id, outcome)
        IN  /\ Logged(c, r.req)
            /\ IF r.ok
               THEN CallGetProjectId(c, [loc[c] EXCEPT !.ticket = r.ticket],
                                     op[c].project_number, "atp_mutation")
               ELSE Finish(c, Raised(r.err)) /\ UNCHANGED loc
    /\ UNCHANGED <<backend, self, op, pre, held>>

\* addProjectV2ItemById: the issue's item, created unless it exists
WithItem(items, issue) ==
    IF \E i \in 1..Len(items) : items[i].content = issue THEN items
    ELSE Append(items, [content |-> issue, status |-> NoId])

AtpMutation(c) ==
    /\ pc[c] = "atp_mutation"
    /\ \E outcome \in MutationOutcomes :
        LET exc == _graphql_request(outcome)
            n == CHOOSE m \in ProjectOf(loc[c].project_id) : TRUE
            issue == CHOOSE i \in Subject(loc[c].ticket.id) : TRUE
        IN  /\ IF Applied(outcome)
               THEN board' = [board EXCEPT ![n].items = WithItem(@, issue)]
               ELSE UNCHANGED board
            /\ Logged(c, Request("addProjectV2ItemById", loc[c].ticket.id, outcome))
            /\ IF exc # NoError
               THEN Finish(c, Raised(ValueError("Failed to add ticket to project",
                                                << >>, << >>)))
               ELSE Goto(c, "atp_refetch")
    /\ UNCHANGED <<issues, comments, projects, self, op, loc, pre, held>>

\* the re-fetch issued again when it failed
AtpRefetch_retry(c) ==
    /\ pc[c] = "atp_refetch"
    /\ \E outcome \in QueryOutcomes :
        LET r == get_ticket(op[c].ticket_id, outcome)
        IN  /\ Logged(c, r.req)
            /\ IF r.ok THEN Finish(c, Returned(r.ticket)) ELSE Goto(c, "atp_refetch")
    /\ UNCHANGED <<backend, self, op, loc, pre, held>>

AtpRefetch(c) ==
    /\ pc[c] = "atp_refetch"
    /\ \E outcome \in QueryOutcomes :
        LET r == get_ticket(op[c].ticket_id, outcome)
        IN  /\ Logged(c, r.req)
            /\ Finish(c, IF r.ok THEN Returned(r.ticket) ELSE Raised(r.err))
    /\ UNCHANGED <<backend, self, op, loc, pre, held>>

-----------------------------------------------------------------------------
(* Specification: a repository with two issues and two projects, project 1 *)
(* with the Status field, project 2 without; tickets are put on the board   *)
(* and their status is updated.                                            *)

StatusOptions ==
    <<Option(<<"o", "1">>, Chars_Todo), Option(<<"o", "2">>, Chars_InProgress),
      Option(<<"o", "3">>, Chars_Done)>>

PriorityOptions == <<Option(<<"o", "8">>, Chars_done), Option(<<"o", "9">>, Chars_open)>>

ProjectWithStatus(scope) ==
    [scope |-> scope,
     fields |-> <<OtherField, SingleSelect(FieldId(1, 2), "Priority", PriorityOptions),
                  SingleSelect(FieldId(1, 3), "Status", StatusOptions)>>]

ProjectWithoutStatus ==
    [scope |-> "repository",
     fields |-> <<OtherField, SingleSelect(FieldId(2, 2), "status", StatusOptions)>>]

EmptyBoard(foreign) == [foreign |-> foreign, items |-> << >>]

InitStatus ==
    /\ issues = <<ExistingIssue("T1"), ExistingIssue("T2")>>
    /\ comments = << << >>, << >> >>
    /\ \E k \in 1..Len(Scopes) :
            projects = <<ProjectWithStatus(Scopes[k]), ProjectWithoutStatus>>
    /\ \E foreign \in {0, ItemsFirst - 1} :
            board = <<EmptyBoard(foreign), EmptyBoard(foreign)>>
    /\ \E project_number \in {NoProject, 1} : self = InitAdapter(project_number)
    /\ InitCallers

NextStatus ==
    \E c \in Callers :
        \/ StartUpdateStatus(c)
        \/ GetProjectIdRepository(c)
        \/ GetProjectIdUser(c)
        \/ GetProjectIdOrganization(c)
        \/ StatusFieldsQuery(c)
        \/ ItemGetTicket(c)
        \/ ItemItemsQuery(c)
        \/ StatusMutation(c)
        \/ StatusRefetch(c)
        \/ StartAddTicketToProject(c)
        \/ AtpGetTicket(c)
        \/ AtpMutation(c)
        \/ AtpRefetch(c)
        \/ Return(c)

SpecStatus == InitStatus /\ [][NextStatus]_vars

-----------------------------------------------------------------------------
(* Properties of update_status, checked under SpecStatus.                  *)

\* the project the adapter resolved: the one its project id designates
Resolved == self._project_id # NoId

TheProject == CHOOSE n \in ProjectOf(self._project_id) : TRUE

\* the options of the project's Status field, << >> when it has none
OptionsOfProject(n) ==
    LET fields == projects[n].fields
        S == {k \in 1..Len(fields) : fields[k].single /\ fields[k].name = "Status"}
    IN  IF S = {} THEN << >> ELSE fields[CHOOSE k \in S : \A j \in S : k <= j].options

HasStatusField(n) ==
    \E k \in 1..Len(projects[n].fields) :
        projects[n].fields[k].single /\ projects[n].fields[k].name = "Status"

\* the options whose name equals status ignoring letter case
Matches(n, status) ==
    {k \in 1..Len(OptionsOfProject(n)) : lower(OptionsOfProject(n)[k].name) = lower(status)}

\* positions of the issue's item on a board, counted over all of its items
PositionsOn(b, issue) ==
    {b.foreign + i : i \in {j \in 1..Len(b.items) : b.items[j].content = issue}}

OnBoard(b, issue) == PositionsOn(b, issue) # {}

InFetchedItems(b, issue) == \E p \in PositionsOn(b, issue) : p <= ItemsFirst

Updating(c) ==
    /\ Done(c, "update_status")
    /\ NoFault(c)
    /\ Resolved
    /\ EntityOf(op[c].ticket_id) # {}

StatusUpdates(c) ==
    {i \in 1..Len(log[c]) : log[c][i].req = "updateProjectV2ItemFieldValue"}

UpdatedTo(c, option) ==
    /\ res[c].ok
    /\ res[c].ticket.status = option.name
    /\ res[c].ticket.number = TheEntity(op[c].ticket_id)
    /\ \E i \in StatusUpdates(c) : log[c][i].value = option.id

\* C2 as stated: update_status on a ticket that is on the project board, with
\* a status equal to an option name ignoring letter case, succeeds, issues the
\* field-update mutation with that option's id and returns the ticket with
\* exactly that option's display name as its status.
C2_OnBoardUpdated ==
    \A c \in Callers :
        (/\ Updating(c)
         /\ Matches(TheProject, op[c].status) # {}
         /\ OnBoard(pre[c].board[TheProject], TheEntity(op[c].ticket_id)))
        => \E k \in Matches(TheProject, op[c].status) :
                UpdatedTo(c, OptionsOfProject(TheProject)[k])

\* C2 amended: the same for a ticket whose project item is among the first
\* 100 items of the board, the page the adapter fetches.
C2_FetchedItemUpdated ==
    \A c \in Callers :
        (/\ Updating(c)
         /\ Matches(TheProject, op[c].status) # {}
         /\ InFetchedItems(pre[c].board[TheProject], TheEntity(op[c].ticket_id)))
        => \E k \in Matches(TheProject, op[c].status) :
                UpdatedTo(c, OptionsOfProject(TheProject)[k])

\* update_status(ticket, "done") returned the ticket with status "Done"
C2_Witness ==
    \E c \in Callers :
        /\ Updating(c)
        /\ op[c].status = Chars_done
        /\ InFetchedItems(pre[c].board[TheProject], TheEntity(op[c].ticket_id))
        /\ res[c].ok
        /\ res[c].ticket.status = Chars_Done

\* C3: update_status with a status name matching no option of the Status
\* field ignoring case fails with the status-not-found error, whose message
\* lists every option name of the field.
C3_StatusNotFoundListsAll ==
    \A c \in Callers :
        (/\ Done(c, "update_status")
         /\ NoFault(c)
         /\ Resolved
         /\ HasStatusField(TheProject)
         /\ Matches(TheProject, op[c].status) = {})
        => /\ ~res[c].ok
           /\ res[c].err.exc = "ValueError"
           /\ res[c].err.text = "Status not found"
           /\ res[c].err.arg = op[c].status
           /\ res[c].err.list =
                join(<<",", " ">>, [k \in 1..Len(OptionsOfProject(TheProject)) |->
                                        OptionsOfProject(TheProject)[k].name])
           /\ StatusUpdates(c) = {}

\* update_status(ticket, "open") failed on a field with three options
C3_Witness ==
    \E c \in Callers :
        /\ Done(c, "update_status")
        /\ NoFault(c)
        /\ Resolved
        /\ op[c].status = Chars_open
        /\ Len(OptionsOfProject(TheProject)) = 3
        /\ res[c].err.text = "Status not found"

NotInProject == "Ticket not found in project. Use add_ticket_to_project first."

\* C4: update_status on an existing ticket with no item among the project's
\* fetched items fails with the error telling the caller to add the ticket to
\* the project first; no field-update mutation is issued and the board status
\* of every ticket is unchanged.
C4_NotOnBoard ==
    \A c \in Callers :
        /\ (/\ Updating(c)
            /\ Matches(TheProject, op[c].status) # {}
            /\ ~InFetchedItems(pre[c].board[TheProject], TheEntity(op[c].ticket_id)))
           => (~res[c].ok /\ res[c].err.text = NotInProject)
        /\ (Done(c, "update_status") /\ res[c].err.text = NotInProject)
           => (StatusUpdates(c) = {} /\ board = pre[c].board)

\* ticket 2 is not on the board while ticket 1 is, and the update of 2 failed
C4_Witness ==
    \E c \in Callers :
        /\ Updating(c)
        /\ TheEntity(op[c].ticket_id) = 2
        /\ OnBoard(board[TheProject], 1)
        /\ ~OnBoard(board[TheProject], 2)
        /\ res[c].err.text = NotInProject

\* C5: update_status(ticket, "open") on an existing ticket returns a Ticket
\* when the adapter has no default project number and the call passes none.
C5_OpenReturnsTicket ==
    \A c \in Callers :
        (/\ Done(c, "update_status")
         /\ NoFault(c)
         /\ EntityOf(op[c].ticket_id) # {}
         /\ op[c].status = Chars_open
         /\ op[c].project_number = NoProject
         /\ self.project_number = NoProject)
        => res[c].ok

-----------------------------------------------------------------------------
(* create_subtask (client.py:828-870): the parent is fetched, the ticket is *)
(* created, then add_subtask(parent_id, str(subtask.number)) runs as the    *)
(* relational operation above, with op naming the call in progress and      *)
(* op.outer the operation the caller invoked.                              *)

\* str of a sequence of characters, as one string
RECURSIVE Str(_)
Str(chars) == IF Len(chars) = 0 THEN "" ELSE Head(chars) \o Str(Tail(chars))

\* the body without the reference to the parent
SubtaskBody_noref(parent_ticket, body) == body

\* client.py:853-858
SubtaskBody(parent_ticket, body) ==
    LET parent_ref == "Part of #" \o Str(PyStrInt(parent_ticket.number))
    IN  IF body # "" THEN parent_ref \o "\n\n" \o body ELSE parent_ref

Bodies == {"", "B"}

LabelArgs == {<< >>, <<"bug">>}

StartCreateSubtask(c) ==
    \E parent_id \in NumberIds \cup NodeIds, title \in Titles,
       body \in Bodies, labels \in LabelArgs :
        /\ Len(issues) < MaxIssues
        /\ Invoke(c, [NoOp EXCEPT !.name = "create_subtask", !.outer = "create_subtask",
                        !.ticket_id = parent_id, !.title = title,
                        !.body = body, !.labels = labels], "cs_parent")
        /\ UNCHANGED <<backend, self, held>>

\* parent_ticket = await self.get_ticket(parent_id)
CsGetParent(c) ==
    /\ pc[c] = "cs_parent"
    /\ \E outcome \in QueryOutcomes :
        LET r == get_ticket(op[c].ticket_id, outcome)
        IN  /\ Logged(c, r.req)
            /\ IF r.ok
               THEN /\ loc' = [loc EXCEPT ![c].parent_ticket = r.ticket]
                    /\ Goto(c, "cs_create")
               ELSE /\ Finish(c, Raised(r.err))
                    /\ UNCHANGED loc
    /\ UNCHANGED <<backend, self, op, pre, held>>

\* subtask = await self.create_ticket(title, subtask_body, labels), then into
\* add_subtask(parent_id, str(subtask.number))
CsCreate(c) ==
    /\ pc[c] = "cs_create"
    /\ \E outcome \in RestOutcomes, dbId \in DbIds :
        LET n == Len(issues) + 1
            issue == [title |-> op[c].title,
                      body |-> SubtaskBody(loc[c].parent_ticket, op[c].body),
                      labels |-> op[c].labels, assignees |-> << >>, milestone |-> ""]
            exc == _rest_request(outcome)
            subtask == _parse_issue_to_ticket(RestIssue(n, issue, dbId), NoItem)
        IN  /\ IF Applied(outcome)
               THEN /\ issues' = Append(issues, issue)
                    /\ comments' = Append(comments, << >>)
               ELSE UNCHANGED <<issues, comments>>
            /\ Logged(c, Request("POST issues", << >>, outcome))
            /\ IF exc # NoError
               THEN /\ Finish(c, Raised(exc))
                    /\ UNCHANGED <<op, loc>>
               ELSE /\ loc' = [loc EXCEPT ![c].subtask = subtask]
                    /\ op' = [op EXCEPT ![c].name = "add_subtask",
                                        ![c].other_id = PyStrInt(subtask.number)]
                    /\ Goto(c, "rel_first")
    /\ UNCHANGED <<projects, board, self, pre, held>>

(* Specification: a repository with one issue; subtasks are created.       *)

InitSubtask ==
    /\ issues = <<ExistingIssue("T1")>>
    /\ comments = << << >> >>
    /\ projects = NoProjects
    /\ board = NoProjects
    /\ self = InitAdapter(NoProject)
    /\ InitCallers

NextSubtask ==
    \E c \in Callers :
        \/ StartCreateSubtask(c)
        \/ CsGetParent(c)
        \/ CsCreate(c)
        \/ RelGetFirst(c)
        \/ RelGetSecond(c)
        \/ AddCommentGetTicket(c)
        \/ AddCommentMutation(c)
        \/ Return(c)

SpecSubtask == InitSubtask /\ [][NextSubtask]_vars

-----------------------------------------------------------------------------
(* Properties of create_subtask, checked under SpecSubtask.                *)

CreatingSubtask(c) == op[c].outer = "create_subtask"

\* the number of issues when the invocation began: one comment stream each
IssuesBefore(c) == Len(pre[c].comments)

Creations(c) == {i \in 1..Len(log[c]) : log[c][i].req = "POST issues"}

\* "Part of #<parent.number>", then a blank line and the caller's body if any
ExpectedBody(parent, body) ==
    IF body = "" THEN "Part of #" \o Str(PyStrInt(parent))
    ELSE "Part of #" \o Str(PyStrInt(parent)) \o "\n\n" \o body

\* C11: create_subtask resolves the parent first and fails before anything is
\* created when the parent does not exist; it then creates the ticket with the
\* body "Part of #<parent.number>" (a blank line and the caller's body after
\* it when one is given), then runs add_subtask(parent, new ticket), and
\* returns the newly created ticket.
C11_CreateSubtaskSteps ==
    \A c \in Callers :
        CreatingSubtask(c) =>
            /\ \A i \in Creations(c) : i = 2 /\ IsFetch(log[c][1], op[c].ticket_id)
            /\ (pc[c] = "done" /\ EntityOf(op[c].ticket_id) = {}) =>
                    /\ ~res[c].ok
                    /\ Creations(c) = {}
                    /\ Len(issues) = IssuesBefore(c)
            /\ (pc[c] = "done" /\ NoFault(c) /\ EntityOf(op[c].ticket_id) # {}) => res[c].ok
            /\ (pc[c] = "done" /\ res[c].ok) =>
                    LET parent == TheEntity(op[c].ticket_id)
                        new == IssuesBefore(c) + 1
                    IN  /\ Len(log[c]) = 6
                        /\ IsFetch(log[c][1], op[c].ticket_id)
                        /\ log[c][2].req = "POST issues"
                        /\ IsFetch(log[c][3], op[c].ticket_id)
                        /\ IsFetch(log[c][4], PyStrInt(new))
                        /\ IsFetch(log[c][5], op[c].ticket_id)
                        /\ log[c][6].req = "addComment"
                        /\ log[c][6].arg = NodeId(parent)
                        /\ Len(issues) = new
                        /\ issues[new].title = op[c].title
                        /\ issues[new].body = ExpectedBody(parent, op[c].body)
                        /\ issues[new].labels = op[c].labels
                        /\ res[c].ticket.number = new
                        /\ res[c].ticket.title = op[c].title
                        /\ res[c].ticket.body = ExpectedBody(parent, op[c].body)
                        /\ comments[parent] =
                                Append(pre[c].comments[parent], SubtaskComment(new))

\* a subtask with a body of the caller was created under issue 1
C11_Witness ==
    \E c \in Callers :
        /\ CreatingSubtask(c) /\ pc[c] = "done" /\ res[c].ok
        /\ op[c].body = "B"
        /\ res[c].ticket.body = "Part of #1\n\nB"
        /\ comments[1] = <<SubtaskComment(2)>>

-----------------------------------------------------------------------------
(* Labels: get_labels, get_ticket_labels, add_label (client.py:550-613).   *)

RepoLabelsFirst == 100  \* labels(first: 100)

LabelId(i) == <<"L", "_">> \o PyStrInt(i)

\* Label (models/label.py); description and color are not modelled
Label(id, name) == [id |-> id, name |-> name]

\* the repository's labels in the order of the connection: "bug", "ui" and
\* others on the first page, "late" after the end of that page
RepoLabels ==
    [i \in 1..(RepoLabelsFirst + 1) |->
        Label(LabelId(i), CASE i = 1 -> "bug"
                            [] i = 2 -> "ui"
                            [] i = RepoLabelsFirst + 1 -> "late"
                            [] OTHER -> "l" \o ToString(i))]

Listed(ok, list, err, req) == [ok |-> ok, list |-> list, err |-> err, req |-> req]

get_labels(outcome) ==
    LET req == Request("labels", << >>, outcome)
        exc == _graphql_request(outcome)
    IN  IF exc # NoError THEN Listed(FALSE, << >>, exc, req)
        ELSE Listed(TRUE, Page(RepoLabels, RepoLabelsFirst), NoError, req)

\* every label: the filter of client.py:588 left out
TicketLabels_all(all_labels, ticket) == all_labels

\* [label for label in all_labels if label.name in ticket.labels]
TicketLabels(all_labels, ticket) ==
    SelectSeq(all_labels,
              LAMBDA label : \E i \in 1..Len(ticket.labels) : ticket.labels[i] = label.name)

\* any label, whatever its name
LabelsNamed_any(labels, label_name) == 1..Len(labels)

\* (l for l in labels if l.name == label_name)
LabelsNamed(labels, label_name) == {i \in 1..Len(labels) : labels[i].name = label_name}

LabelNames == {"bug", "ui", "Bug", "late"}

StartAddLabel(c) ==
    \E ticket_id \in NumberIds \cup NodeIds, label_name \in LabelNames :
        /\ Invoke(c, [NoOp EXCEPT !.name = "add_label", !.ticket_id = ticket_id,
                                  !.value = label_name], "al_get_ticket")
        /\ UNCHANGED <<backend, self, held>>

\* ticket = await self.get_ticket(ticket_id)
AlGetTicket(c) ==
    /\ pc[c] = "al_get_ticket"
    /\ \E outcome \in QueryOutcomes :
        LET r == get_ticket(op[c].ticket_id, outcome)
        IN  /\ Logged(c, r.req)
            /\ IF r.ok
               THEN /\ loc' = [loc EXCEPT ![c].ticket = r.ticket]
                    /\ Goto(c, "al_labels")
               ELSE /\ Finish(c, Raised(r.err))
                    /\ UNCHANGED loc
    /\ UNCHANGED <<backend, self, op, pre, held>>

\* labels = await self.get_labels(); the label named label_name, or the raise
AlGetLabels(c) ==
    /\ pc[c] = "al_labels"
    /\ \E outcome \in QueryOutcomes :
        LET r == get_labels(outcome)
            found == LabelsNamed(r.list, op[c].value)
        IN  /\ Logged(c, r.req)
            /\ IF ~r.ok
               THEN Finish(c, Raised(r.err)) /\ UNCHANGED loc
               ELSE IF found = {}
               THEN /\ Finish(c, Raised(ValueError("Label not found", <<op[c].value>>, << >>)))
                    /\ UNCHANGED loc
               ELSE /\ loc' = [loc EXCEPT ![c].label = r.list[FirstOf(found)].id]
                    /\ Goto(c, "al_mutation")
    /\ UNCHANGED <<backend, self, op, pre, held>>

\* addLabelsToLabelable: the labels are attached unless they already are
WithLabel(labels, name) ==
    IF \E i \in 1..Len(labels) : labels[i] = name THEN labels ELSE Append(labels, name)

LabelById(id) == RepoLabels[CHOOSE i \in 1..Len(RepoLabels) : RepoLabels[i].id = id]

AlMutation(c) ==
    /\ pc[c] = "al_mutation"
    /\ \E outcome \in MutationOutcomes :
        LET exc == _graphql_request(outcome)
            n == CHOOSE i \in Subject(loc[c].ticket.id) : TRUE
        IN  /\ IF Applied(outcome)
               THEN issues' = [issues EXCEPT
                        ![n].labels = WithLabel(@, LabelById(loc[c].label).name)]
               ELSE UNCHANGED issues
            /\ Logged(c, [Request("addLabelsToLabelable", loc[c].ticket.id, outcome)
                            EXCEPT !.value = loc[c].label])
            /\ IF exc # NoError THEN Finish(c, Raised(exc)) ELSE Goto(c, "al_refetch")
    /\ UNCHANGED <<comments, projects, board, self, op, loc, pre, held>>

\* the ticket fetched before the mutation returned, without a second fetch
AlRefetch_stale(c) ==
    /\ pc[c] = "al_refetch"
    /\ Finish(c, Returned(loc[c].ticket))
    /\ UNCHANGED <<backend, self, op, loc, log, pre, held>>

\* return await self.get_ticket(ticket_id)
AlRefetch(c) ==
    /\ pc[c] = "al_refetch"
    /\ \E outcome \in QueryOutcomes :
        LET r == get_ticket(op[c].ticket_id, outcome)
        IN  /\ Logged(c, r.req)
            /\ Finish(c, IF r.ok THEN Returned(r.ticket) ELSE Raised(r.err))
    /\ UNCHANGED <<backend, self, op, loc, pre, held>>

StartGetTicketLabels(c) ==
    \E ticket_id \in NumberIds \cup NodeIds :
        /\ Invoke(c, [NoOp EXCEPT !.name = "get_ticket_labels",
                                  !.ticket_id = ticket_id], "tl_get_ticket")
        /\ UNCHANGED <<backend, self, held>>

\* ticket = await self.get_ticket(ticket_id)
TlGetTicket(c) ==
    /\ pc[c] = "tl_get_ticket"
    /\ \E outcome \in QueryOutcomes :
        LET r == get_ticket(op[c].ticket_id, outcome)
        IN  /\ Logged(c, r.req)
            /\ IF r.ok
               THEN /\ loc' = [loc EXCEPT ![c].ticket = r.ticket]
                    /\ Goto(c, "tl_labels")
               ELSE /\ Finish(c, Raised(r.err))
                    /\ UNCHANGED loc
    /\ UNCHANGED <<backend, self, op, pre, held>>

\* all_labels = await self.get_labels(), then the filter
TlGetLabels(c) ==
    /\ pc[c] = "tl_labels"
    /\ \E outcome \in QueryOutcomes :
        LET r == get_labels(outcome)
        IN  /\ Logged(c, r.req)
            /\ Finish(c, IF r.ok THEN ReturnedList(TicketLabels(r.list, loc[c].ticket))
                         ELSE Raised(r.err))
    /\ UNCHANGED <<backend, self, op, loc, pre, held>>

(* Specification: a repository with one labelled issue; tickets are        *)
(* created, labelled and fetched.                                          *)

LabelledIssue == [ExistingIssue("T1") EXCEPT !.labels = <<"ui", "bug", "late">>]

InitLabels ==
    /\ issues = <<LabelledIssue>>
    /\ comments = << << >> >>
    /\ projects = NoProjects
    /\ board = NoProjects
    /\ self = InitAdapter(NoProject)
    /\ InitCallers

NextLabels ==
    \E c \in Callers :
        \/ StartCreateTicket(c)
        \/ CreateTicketPost(c)
        \/ StartGetTicket(c)
        \/ GetTicketQuery(c)
        \/ StartAddLabel(c)
        \/ AlGetTicket(c)
        \/ AlGetLabels(c)
        \/ AlMutation(c)
        \/ AlRefetch(c)
        \/ StartGetTicketLabels(c)
        \/ TlGetTicket(c)
        \/ TlGetLabels(c)
        \/ Return(c)

SpecLabels == InitLabels /\ [][NextLabels]_vars

-----------------------------------------------------------------------------
(* Properties of the label operations, checked under SpecLabels.           *)

\* the ticket the caller holds from its previous call denotes the same issue
HeldIs(x) == Len(held) > 0 /\ held[1].number \in EntityOf(x)

\* C12: after create(title) with no labels, a successful labels.add(ticket, L)
\* returns the ticket with labels exactly [L], and a following get of the
\* ticket returns labels exactly [L] as well.
C12_CreateAddGet ==
    \A c \in Callers :
        /\ (Done(c, "add_label") /\ res[c].ok /\ HeldIs(op[c].ticket_id)
                /\ held[1].labels = << >>)
           => /\ res[c].ticket.labels = <<op[c].value>>
              /\ res[c].ticket.number = held[1].number
              /\ issues[held[1].number].labels = <<op[c].value>>
        /\ (Done(c, "get_ticket") /\ res[c].ok /\ HeldIs(op[c].ticket_id)
                /\ Len(held[1].labels) = 1)
           => /\ res[c].ticket.labels = held[1].labels
              /\ res[c].ticket.number = held[1].number

\* ticket 2 was created without labels, "bug" was added to it, and the get
\* that followed returned labels ["bug"]
C12_Witness ==
    \E c \in Callers :
        /\ Done(c, "get_ticket") /\ res[c].ok
        /\ HeldIs(op[c].ticket_id)
        /\ held[1].number = 2
        /\ held[1].labels = <<"bug">>
        /\ res[c].ticket.labels = <<"bug">>

\* the names of the labels on the page get_labels fetches
PageNames == {RepoLabels[i].name : i \in 1..RepoLabelsFirst}

Attachments(c) == {i \in 1..Len(log[c]) : log[c][i].req = "addLabelsToLabelable"}

LabelQueries(c) == {i \in 1..Len(log[c]) : log[c][i].req = "labels"}

\* C13: labels.add(ticket, name) raises the label-not-found error when no
\* label of the fetched page is named exactly name; it then has issued no
\* attach mutation and the labels of every ticket are unchanged.  When the
\* ticket does not exist it fails before the labels are fetched.
C13_LabelNotFound ==
    \A c \in Callers :
        Done(c, "add_label") =>
            /\ (NoFault(c) /\ EntityOf(op[c].ticket_id) # {} /\ op[c].value \notin PageNames)
               => /\ ~res[c].ok
                  /\ res[c].err.text = "Label not found"
                  /\ res[c].err.arg = <<op[c].value>>
                  /\ Attachments(c) = {}
                  /\ issues = pre[c].issues
            /\ EntityOf(op[c].ticket_id) = {}
               => /\ ~res[c].ok
                  /\ LabelQueries(c) = {}
                  /\ Attachments(c) = {}
                  /\ issues = pre[c].issues

\* "Bug" was asked for in a repository whose label is "bug"
C13_Witness ==
    \E c \in Callers :
        /\ Done(c, "add_label") /\ NoFault(c)
        /\ EntityOf(op[c].ticket_id) # {}
        /\ op[c].value = "Bug"
        /\ res[c].err.text = "Label not found"

\* the labels of the fetched page whose name is on issue n, in the page's order
PageLabelsOn(n) ==
    LET on == {i \in 1..RepoLabelsFirst :
                    \E k \in 1..Len(issues[n].labels) : issues[n].labels[k] = RepoLabels[i].name}
        RECURSIVE From(_)
        From(i) == IF i > RepoLabelsFirst THEN << >>
                   ELSE IF i \in on THEN <<RepoLabels[i]>> \o From(i + 1)
                   ELSE From(i + 1)
    IN  From(1)

\* C14: labels.forTicket(ticket) returns exactly the labels of the fetched
\* page whose name is in the ticket's label list, in the page's order; it
\* issues two queries and no mutation; its result is determined by the
\* backend state, so two calls with no mutation between them return the same.
C14_TicketLabels ==
    \A c \in Callers :
        /\ op[c].name = "get_ticket_labels"
           => /\ \A i \in 1..Len(log[c]) :
                    log[c][i].req \in {"issue(number)", "node(id)", "labels"}
              /\ issues = pre[c].issues
        /\ (Done(c, "get_ticket_labels") /\ NoFault(c) /\ EntityOf(op[c].ticket_id) # {})
           => /\ res[c].ok
              /\ res[c].list = PageLabelsOn(TheEntity(op[c].ticket_id))
              /\ Len(log[c]) = 2

\* the labels of issue 1, which carries "ui", "bug" and "late" in this order
C14_Witness ==
    \E c \in Callers :
        /\ Done(c, "get_ticket_labels") /\ res[c].ok
        /\ TheEntity(op[c].ticket_id) = 1
        /\ res[c].list = <<Label(LabelId(1), "bug"), Label(LabelId(2), "ui")>>

-----------------------------------------------------------------------------
(* get_tickets (client.py:309-368).                                        *)

Chars_closed == <<"c", "l", "o", "s", "e", "d">>

Chars_CLOSED == <<"C", "L", "O", "S", "E", "D">>

ListLimit == 50         \* limit: int = 50

\* the filters with only "done" taken as closed
Filters_done(status, assignee, label, milestone) ==
    <<"repo:" \o self.owner \o "/" \o self.repo, "is:issue">>
    \o (IF status # << >>
        THEN IF lower(status) = Chars_done THEN <<"is:closed">> ELSE <<"is:open">>
        ELSE << >>)
    \o (IF assignee # "" THEN <<"assignee:" \o assignee>> ELSE << >>)
    \o (IF label # "" THEN <<"label:" \o label>> ELSE << >>)
    \o (IF milestone # "" THEN <<"milestone:" \o milestone>> ELSE << >>)

\* client.py:319-330
Filters(status, assignee, label, milestone) ==
    <<"repo:" \o self.owner \o "/" \o self.repo, "is:issue">>
    \o (IF status # << >>
        THEN IF lower(status) \in {Chars_done, Chars_closed}
             THEN <<"is:closed">> ELSE <<"is:open">>
        ELSE << >>)
    \o (IF assignee # "" THEN <<"assignee:" \o assignee>> ELSE << >>)
    \o (IF label # "" THEN <<"label:" \o label>> ELSE << >>)
    \o (IF milestone # "" THEN <<"milestone:" \o milestone>> ELSE << >>)

\* the search endpoint: the query's space-separated terms must all hold of an
\* issue; every issue of the model is open and in the adapter's repository
TermHolds(term, n) ==
    \/ term \in {"repo:" \o self.owner \o "/" \o self.repo, "is:issue", "is:open"}
    \/ \E i \in 1..Len(issues[n].assignees) : term = "assignee:" \o issues[n].assignees[i]
    \/ \E i \in 1..Len(issues[n].labels) : term = "label:" \o issues[n].labels[i]
    \/ issues[n].milestone # "" /\ term = "milestone:" \o issues[n].milestone

RECURSIVE SearchFrom(_, _)
SearchFrom(terms, n) ==
    IF n > Len(issues) THEN << >>
    ELSE (IF \A i \in 1..Len(terms) : TermHolds(terms[i], n)
          THEN <<GraphqlIssue(n)>> ELSE << >>) \o SearchFrom(terms, n + 1)

\* search(query: $query, type: ISSUE, first: $limit) { nodes }
SearchNodes(terms, limit) == Page(SearchFrom(terms, 1), limit)

ListStatuses == {<< >>, Chars_done, Chars_Done, Chars_CLOSED, Chars_open, Chars_Todo}

StartGetTickets(c) ==
    \E status \in ListStatuses, assignee \in {"", "ann"}, label \in {"", "bug"},
       milestone \in {"", "m1"}, limit \in {1, ListLimit} :
        /\ Invoke(c, [NoOp EXCEPT !.name = "get_tickets", !.status = status,
                        !.assignee = assignee, !.label = label,
                        !.milestone = milestone, !.limit = limit], "get_tickets")
        /\ UNCHANGED <<backend, self, held>>

GetTicketsQuery(c) ==
    /\ pc[c] = "get_tickets"
    /\ \E outcome \in QueryOutcomes :
        LET filters == Filters(op[c].status, op[c].assignee, op[c].label, op[c].milestone)
            query_str == join(" ", filters)
            exc == _graphql_request(outcome)
            nodes == SearchNodes(filters, op[c].limit)
        IN  /\ Logged(c, Request("search", <<query_str>>, outcome))
            /\ Finish(c, IF exc # NoError THEN Raised(exc)
                         ELSE ReturnedList([i \in 1..Len(nodes) |->
                                    _parse_issue_to_ticket(nodes[i], NoItem)]))
    /\ UNCHANGED <<backend, self, op, loc, pre, held>>

-----------------------------------------------------------------------------
(* add_branch, add_pull_request (client.py:791-809).                       *)

LinkOps == {"add_branch", "add_pull_request"}

StartLink(c) ==
    \E name \in LinkOps, ticket_id \in NumberIds \cup NodeIds :
        /\ Invoke(c, [NoOp EXCEPT !.name = name, !.ticket_id = ticket_id,
                        !.value = IF name = "add_branch" THEN "feature" ELSE "pull/7"],
                  "link_get_ticket")
        /\ UNCHANGED <<backend, self, held>>

\* ticket.branch = branch_name / ticket.pull_requests.append(pr_url)
Linked(name, ticket, value) ==
    IF name = "add_branch" THEN [ticket EXCEPT !.branch = value]
    ELSE [ticket EXCEPT !.pull_requests = Append(@, value)]

LinkGetTicket(c) ==
    /\ pc[c] = "link_get_ticket"
    /\ \E outcome \in QueryOutcomes :
        LET r == get_ticket(op[c].ticket_id, outcome)
        IN  /\ Logged(c, r.req)
            /\ Finish(c, IF r.ok THEN Returned(Linked(op[c].name, r.ticket, op[c].value))
                         ELSE Raised(r.err))
    /\ UNCHANGED <<backend, self, op, loc, pre, held>>

\* add_subtask alone of the relational operations
StartAddSubtask(c) ==
    \E parent_id \in RelIds, subtask_id \in RelIds :
        /\ TotalComments < MaxComments
        /\ Invoke(c, [NoOp EXCEPT !.name = "add_subtask", !.ticket_id = parent_id,
                                  !.other_id = subtask_id], "rel_first")
        /\ UNCHANGED <<backend, self, held>>

(* Specification: a repository with two issues; tickets are listed,        *)
(* fetched and linked.                                                     *)

AssignedIssue ==
    [ExistingIssue("T1") EXCEPT !.labels = <<"bug">>, !.assignees = <<"ann">>,
                                !.milestone = "m1"]

InitList ==
    /\ issues = <<AssignedIssue, ExistingIssue("T2")>>
    /\ comments = << << >>, << >> >>
    /\ projects = NoProjects
    /\ board = NoProjects
    /\ self = InitAdapter(NoProject)
    /\ InitCallers

NextList ==
    \E c \in Callers :
        \/ StartGetTickets(c)
        \/ GetTicketsQuery(c)
        \/ StartGetTicket(c)
        \/ GetTicketQuery(c)
        \/ StartLink(c)
        \/ LinkGetTicket(c)
        \/ StartAddSubtask(c)
        \/ RelGetFirst(c)
        \/ RelGetSecond(c)
        \/ AddCommentGetTicket(c)
        \/ AddCommentMutation(c)
        \/ Return(c)

SpecList == InitList /\ [][NextList]_vars

-----------------------------------------------------------------------------
(* Properties of get_tickets and of the links, checked under SpecList.     *)

\* the status denotes a closed state: "done" or "closed" in any letter case
DenotesClosed(status) ==
    \/ /\ Len(status) = 4
       /\ status[1] \in {"d", "D"} /\ status[2] \in {"o", "O"}
       /\ status[3] \in {"n", "N"} /\ status[4] \in {"e", "E"}
    \/ /\ Len(status) = 6
       /\ status[1] \in {"c", "C"} /\ status[2] \in {"l", "L"}
       /\ status[3] \in {"o", "O"} /\ status[4] \in {"s", "S"}
       /\ status[5] \in {"e", "E"} /\ status[6] \in {"d", "D"}

ExpectedQuery(o) ==
    "repo:acme/tracker is:issue"
    \o (IF o.status = << >> THEN ""
        ELSE IF DenotesClosed(o.status) THEN " is:closed" ELSE " is:open")
    \o (IF o.assignee = "" THEN "" ELSE " assignee:" \o o.assignee)
    \o (IF o.label = "" THEN "" ELSE " label:" \o o.label)
    \o (IF o.milestone = "" THEN "" ELSE " milestone:" \o o.milestone)

\* C15: get_tickets sends one search whose query is the space-joined terms
\* repo:<owner>/<repo>, is:issue, then is:closed for a status equal to "done"
\* or "closed" ignoring case and is:open for every other non-empty status
\* (no status term without a status), then assignee:, label: and milestone:
\* for each filter given, in this order.
C15_SearchQuery ==
    \A c \in Callers :
        Done(c, "get_tickets") =>
            /\ Len(log[c]) = 1
            /\ log[c][1].req = "search"
            /\ log[c][1].arg = <<ExpectedQuery(op[c])>>

\* get_tickets("CLOSED", assignee ann, label bug, milestone m1)
C15_Witness ==
    \E c \in Callers :
        /\ Done(c, "get_tickets")
        /\ op[c].status = Chars_CLOSED
        /\ log[c][1].arg =
                <<"repo:acme/tracker is:issue is:closed assignee:ann label:bug milestone:m1">>

Unlinked(ticket) ==
    ticket.subtasks = << >> /\ ticket.pull_requests = << >> /\ ticket.branch = ""

\* C16: the links are not persisted.  add_branch and add_pull_request return
\* the ticket carrying the value and leave the backend as it was; of
\* add_subtask only the comment remains; every ticket a later get_ticket or
\* get_tickets returns has no subtasks, no pull requests and no branch.
C16_LinksNotPersisted ==
    \A c \in Callers :
        /\ (Done(c, "get_ticket") /\ res[c].ok) => Unlinked(res[c].ticket)
        /\ (Done(c, "get_tickets") /\ res[c].ok) =>
                \A i \in 1..Len(res[c].list) : Unlinked(res[c].list[i])
        /\ (pc[c] = "done" /\ op[c].name \in LinkOps) =>
                /\ issues = pre[c].issues
                /\ comments = pre[c].comments
                /\ res[c].ok =>
                        /\ res[c].ticket =
                                Linked(op[c].name, Canonical(TheEntity(op[c].ticket_id)),
                                       op[c].value)
                        /\ ~Unlinked(res[c].ticket)
        /\ (Done(c, "add_subtask") /\ res[c].ok) =>
                /\ issues = pre[c].issues
                /\ ~Unlinked(res[c].ticket)
                /\ OneCommentAdded(c, TheEntity(op[c].ticket_id),
                                   SubtaskComment(TheEntity(op[c].other_id)))

\* the caller holds a ticket with a link, returned by its previous call, and
\* the list it then fetched has the same ticket without the link
C16_Witness ==
    \E c \in Callers :
        /\ Done(c, "get_tickets") /\ res[c].ok
        /\ Len(held) > 0
        /\ ~Unlinked(held[1])
        /\ \E i \in 1..Len(res[c].list) :
                /\ res[c].list[i].number = held[1].number
                /\ Unlinked(res[c].list[i])

-----------------------------------------------------------------------------
(* Properties of the requests and of _get_project_id, checked under        *)
(* SpecStatus.                                                             *)

ScopeRequest(k) == "projectV2 " \o Scopes[k]

IsScopeRequest(r) == \E k \in 1..Len(Scopes) : r.req = ScopeRequest(k)

\* a scope lookup answered with an error list: the one failure that is caught
Swallowed(r) == IsScopeRequest(r) /\ r.out = "protocol"

\* the lookup returned the project
Matched(r, k) == r.out = "ok" /\ ProjectInScope(Scopes[k], PyInt(r.arg))

\* C17: a request that ended in a transport failure, a timeout or a protocol
\* error is the last request of its invocation, which has ended in failure;
\* the one exception is a scope lookup of _get_project_id answered with a
\* protocol error, after which the next scope is looked up (after the last
\* scope, the invocation ends in failure as well).
C17_NoRetry ==
    \A c \in Callers :
        \A i \in 1..Len(log[c]) :
            log[c][i].out # "ok" =>
                IF Swallowed(log[c][i]) /\ log[c][i].req # ScopeRequest(Len(Scopes))
                THEN \A k \in 1..(Len(Scopes) - 1) :
                        log[c][i].req = ScopeRequest(k) =>
                            /\ pc[c] = "project_" \o Scopes[k + 1] \/ i < Len(log[c])
                            /\ i < Len(log[c]) => log[c][i + 1].req = ScopeRequest(k + 1)
                ELSE /\ i = Len(log[c])
                     /\ pc[c] = "done"
                     /\ ~res[c].ok

\* the status mutation timed out: the invocation failed and sent nothing more
C17_Witness ==
    \E c \in Callers :
        /\ Done(c, "update_status")
        /\ Len(log[c]) > 0
        /\ log[c][Len(log[c])].req = "updateProjectV2ItemFieldValue"
        /\ log[c][Len(log[c])].out = "timeout"
        /\ ~res[c].ok

\* C18: the scope lookups of an invocation are issued in the order
\* repository, user, organization, each after the one before it found no
\* project; a lookup that returns the project stores its id and is the last
\* lookup; a project under the organization only is found by the third lookup.
C18_ScopeOrder ==
    \A c \in Callers :
        \A i \in 1..Len(log[c]) : \A k \in 1..Len(Scopes) :
            log[c][i].req = ScopeRequest(k) =>
                /\ k > 1 => /\ i > 1
                            /\ log[c][i - 1].req = ScopeRequest(k - 1)
                            /\ log[c][i - 1].arg = log[c][i].arg
                            /\ log[c][i - 1].out \in {"ok", "protocol"}
                            /\ ~Matched(log[c][i - 1], k - 1)
                /\ k = 1 => (i = 1 \/ ~IsScopeRequest(log[c][i - 1]))
                /\ Matched(log[c][i], k) =>
                        /\ self._project_id = ProjectId(PyInt(log[c][i].arg))
                        /\ \A j \in (i + 1)..Len(log[c]) : ~IsScopeRequest(log[c][j])
                /\ (i = Len(log[c]) /\ log[c][i].out = "ok" /\ ~Matched(log[c][i], k)
                        /\ k < Len(Scopes)) => pc[c] = "project_" \o Scopes[k + 1]

\* project 1 is under the organization: found after two lookups said no
C18_Witness ==
    \E c \in Callers :
        /\ Done(c, "add_ticket_to_project") /\ res[c].ok
        /\ projects[1].scope = "organization"
        /\ Len(log[c]) >= 4
        /\ log[c][2].req = ScopeRequest(1) /\ log[c][2].out = "ok"
        /\ log[c][3].req = ScopeRequest(2) /\ log[c][3].out = "ok"
        /\ log[c][4].req = ScopeRequest(3) /\ Matched(log[c][4], 3)

ProjectNotFound(c) == pc[c] = "done" /\ res[c].err.text = "Project not found"

\* C19: the project-not-found error names the three scopes and is raised
\* only after the repository, user and organization lookups were all made
\* and none returned the project; an invocation whose last request is an
\* earlier scope's lookup has ended only if that lookup failed in transport.
C19_NotFoundAfterAll ==
    \A c \in Callers :
        /\ ProjectNotFound(c) =>
                LET n == Len(log[c])
                IN  /\ res[c].err.exc = "ValueError"
                    /\ res[c].err.list = <<"repository", "user", "organization">>
                    /\ n >= Len(Scopes)
                    /\ \A k \in 1..Len(Scopes) :
                            /\ log[c][n - Len(Scopes) + k].req = ScopeRequest(k)
                            /\ ~Matched(log[c][n - Len(Scopes) + k], k)
        /\ \A k \in 1..(Len(Scopes) - 1) :
                (pc[c] = "done" /\ Len(log[c]) > 0
                    /\ log[c][Len(log[c])].req = ScopeRequest(k))
                => (log[c][Len(log[c])].out = "transport" /\ ~ProjectNotFound(c))

\* project 3 exists nowhere: three lookups, then the error
C19_Witness ==
    \E c \in Callers :
        /\ ProjectNotFound(c) /\ NoFault(c)
        /\ op[c].project_number = Len(projects) + 1
        /\ log[c][Len(log[c])].req = ScopeRequest(Len(Scopes))

\* C20: once the project id is stored, no step issues a scope lookup, every
\* project id an invocation obtains is the stored one whatever project number
\* it was given, and only the board of the stored project changes.
C20_CacheIgnoresNumber ==
    [][\A c \in Callers :
        self._project_id # NoId =>
            /\ self'._project_id = self._project_id
            /\ Len(log'[c]) > Len(log[c]) => ~IsScopeRequest(log'[c][Len(log'[c])])
            /\ loc'[c].project_id \in {NoId, self._project_id}
            /\ \A n \in 1..Len(board) :
                    board'[n] # board[n] => ProjectId(n) = self._project_id]_vars

\* project 2 was resolved first; add_ticket_to_project for project 1 put the
\* ticket on the board of project 2 without any lookup
C20_Witness ==
    \E c \in Callers :
        /\ Done(c, "add_ticket_to_project") /\ res[c].ok
        /\ op[c].project_number = 1
        /\ self._project_id = ProjectId(2)
        /\ \A i \in 1..Len(log[c]) : ~IsScopeRequest(log[c][i])
        /\ board[2].items # pre[c].board[2].items
        /\ board[1] = pre[c].board[1]

-----------------------------------------------------------------------------
(* Specification: two invocations on one adapter instance. Every await of   *)
(* a coroutine is a point where the other invocation can run                *)
(* (client.py:149, 169, 189).                                              *)

Sessions == {"c1", "c2"}

RaceIds == {PyStrInt(1)}

RaceProjects == {1, 2}

\* add_ticket_to_project(ticket_id, project_number) as StartAddTicketToProject,
\* for the existing ticket and an existing project
StartAddToProject(c) ==
    \E ticket_id \in RaceIds, project_number \in RaceProjects :
        /\ Invoke(c, [NoOp EXCEPT !.name = "add_ticket_to_project",
                        !.ticket_id = ticket_id, !.project_number = project_number],
                  "atp_get_ticket")
        /\ UNCHANGED <<backend, self, held>>

InitRace ==
    /\ issues = <<ExistingIssue("T1")>>
    /\ comments = << << >> >>
    /\ \E k \in 1..Len(Scopes) :
            projects = <<ProjectWithStatus(Scopes[k]), ProjectWithoutStatus>>
    /\ board = <<EmptyBoard(0), EmptyBoard(0)>>
    /\ self = InitAdapter(NoProject)
    /\ pc = [c \in Sessions |-> "idle"]
    /\ op = [c \in Sessions |-> NoOp]
    /\ loc = [c \in Sessions |-> NoLocals]
    /\ log = [c \in Sessions |-> << >>]
    /\ res = [c \in Sessions |-> NoResult]
    /\ pre = [c \in Sessions |-> NoSnapshot]
    /\ held = << >>

NextRace ==
    \E c \in Sessions :
        \/ StartAddToProject(c)
        \/ AtpGetTicket(c)
        \/ GetProjectIdRepository(c)
        \/ GetProjectIdUser(c)
        \/ GetProjectIdOrganization(c)
        \/ AtpMutation(c)
        \/ AtpRefetch(c)
        \/ Return(c)

SpecRace == InitRace /\ [][NextRace]_vars

\* C21: the memoized project id is write-once: after the cache slot first
\* holds a value no step changes that value, also when two invocations for
\* different project numbers interleave on an uninitialized adapter instance.
C21_WriteOnce ==
    [][self._project_id # NoId => self'._project_id = self._project_id]_vars

\* the invocation is suspended in a scope lookup of _get_project_id
InLookup(c) == \E k \in 1..Len(Scopes) : pc[c] = "project_" \o Scopes[k]

\* C21 amended: once the slot holds a value it is never cleared, and the only
\* step that changes it is a scope lookup answering an invocation that began
\* while the slot was still unset, which stores the id of the project that
\* invocation asked for; an invocation begun after the value was stored never
\* changes it.
C21_OverwrittenByEarlierOnly ==
    [][self._project_id # NoId =>
        /\ self'._project_id # NoId
        /\ self'._project_id # self._project_id =>
                \E c \in Sessions :
                    /\ pre[c].project_id = NoId
                    /\ InLookup(c)
                    /\ pc'[c] = loc[c].ret
                    /\ self'._project_id = ProjectId(loc[c].pn)
                    /\ loc'[c].project_id = self'._project_id]_vars

\* both invocations passed the empty-cache check: one obtained P_1, the other
\* then stored P_2 over it
C21_Witness ==
    \E c, d \in Sessions :
        /\ c # d
        /\ loc[c].project_id = ProjectId(1)
        /\ loc[d].project_id = ProjectId(2)
        /\ pre[c].project_id = NoId /\ pre[d].project_id = NoId
        /\ self._project_id = ProjectId(2)

-----------------------------------------------------------------------------
(* Properties of the memoized identifiers, checked under SpecStatus.       *)

\* the invocation has resolved the Status field (client.py:660 returned)
FieldResolved(c) == loc[c].field_id # NoId

\* C22: after a successful _get_status_field_id, and so after a successful
\* update_status, the instance's _status_field_id slot holds the resolved
\* field id (as _project_id holds the resolved project id).
C22_StatusFieldStored ==
    \A c \in Callers :
        FieldResolved(c) =>
            /\ self._project_id = loc[c].project_id
            /\ self._status_field_id = loc[c].field_id

-----------------------------------------------------------------------------
(* Specification: the normalizer applied to payloads of either shape and    *)
(* to project items (client.py:203-262).                                   *)

MaxNames == 2           \* labels, and assignees, of the issue normalized

MaxFieldValues == 2     \* field values of the project item normalized

SeqsUpTo(S, n) == UNION {[1..k -> S] : k \in 0..n}

Shapes == {"dict", "list"}

\* a sub-collection in the nested shape {nodes: [...]} or as a flat list
Collection(shape, entries) ==
    IF shape = "dict" THEN [shape |-> "dict", nodes |-> entries]
    ELSE [shape |-> "list", items |-> entries]

\* the payload of issue n with each sub-collection in the shape given
IssuePayload(n, labels_shape, assignees_shape) ==
    [id |-> IdStr(NodeId(n)), number |-> n,
     title |-> issues[n].title, body |-> issues[n].body,
     labels |-> Collection(labels_shape, NameNodes(issues[n].labels)),
     assignees |-> Collection(assignees_shape, LoginNodes(issues[n].assignees)),
     milestone |-> MilestoneNode(issues[n].milestone)]

Chars_High == <<"H", "i", "g", "h">>

\* the values a project item carries: single-select values (with a name or
\* without the key) and a value of another type
FieldValues ==
    {FieldValue("ProjectV2ItemFieldSingleSelectValue", <<Chars_Done>>),
     FieldValue("ProjectV2ItemFieldSingleSelectValue", <<Chars_High>>),
     FieldValue("ProjectV2ItemFieldSingleSelectValue", << >>),
     FieldValue("ProjectV2ItemFieldTextValue", <<Chars_Todo>>)}

ProjectItems ==
    {NoItem} \cup {[present |-> TRUE, fieldValues |-> fv] :
                        fv \in SeqsUpTo(FieldValues, MaxFieldValues)}

\* _parse_issue_to_ticket(issue, project_item) on a payload of issue 1
ParseIssue(c) ==
    \E labels_shape \in Shapes, assignees_shape \in Shapes,
       project_item \in ProjectItems :
        /\ pc[c] = "idle"
        /\ op' = [op EXCEPT ![c] = [NoOp EXCEPT !.name = "_parse_issue_to_ticket",
                    !.labels_shape = labels_shape,
                    !.assignees_shape = assignees_shape,
                    !.project_item = project_item]]
        /\ Finish(c, Returned(_parse_issue_to_ticket(
                        IssuePayload(1, labels_shape, assignees_shape), project_item)))
        /\ UNCHANGED <<backend, self, loc, log, pre, held>>

InitParse ==
    /\ \E labels \in SeqsUpTo({"bug", "ui"}, MaxNames),
          assignees \in SeqsUpTo({"ann", "bob"}, MaxNames) :
            issues = <<[ExistingIssue("T1") EXCEPT !.labels = labels,
                                                   !.assignees = assignees]>>
    /\ comments = << << >> >>
    /\ projects = NoProjects
    /\ board = NoProjects
    /\ self = InitAdapter(NoProject)
    /\ InitCallers

NextParse == \E c \in Callers : ParseIssue(c) \/ Return(c)

SpecParse == InitParse /\ [][NextParse]_vars

-----------------------------------------------------------------------------
(* Properties of the normalizer, checked under SpecParse.                  *)

Parsed(c) == Done(c, "_parse_issue_to_ticket")

IsSingleSelect(v) == v.typename = "ProjectV2ItemFieldSingleSelectValue"

\* positions of the single-select values of the item given to the normalizer
SingleSelects(c) ==
    IF op[c].project_item.present
    THEN {i \in 1..Len(op[c].project_item.fieldValues) :
            IsSingleSelect(op[c].project_item.fieldValues[i])}
    ELSE {}

NamedSingleSelects(c) ==
    {i \in SingleSelects(c) : Len(op[c].project_item.fieldValues[i].name) > 0}

NameAt(c, i) == op[c].project_item.fieldValues[i].name[1]

\* C23 as stated: the status is the name of the first single-select entry of
\* the item's field values, later single-select entries being ignored, and
\* "Todo" when no item is given or it has no single-select entry.
C23_FirstSingleSelect ==
    \A c \in Callers :
        Parsed(c) =>
            /\ NamedSingleSelects(c) # {} =>
                    \E i \in NamedSingleSelects(c) :
                        /\ \A j \in NamedSingleSelects(c) : i <= j
                        /\ res[c].ticket.status = NameAt(c, i)
            /\ SingleSelects(c) = {} => res[c].ticket.status = TicketStatus_TODO

\* C23 amended: the status is the name of the last single-select entry that
\* has a name (every such entry overwrites the one before it), and "Todo"
\* when no item is given or no single-select entry has a name.
C23_LastSingleSelect ==
    \A c \in Callers :
        Parsed(c) =>
            /\ NamedSingleSelects(c) # {} =>
                    \E i \in NamedSingleSelects(c) :
                        /\ \A j \in NamedSingleSelects(c) : j <= i
                        /\ res[c].ticket.status = NameAt(c, i)
            /\ NamedSingleSelects(c) = {} => res[c].ticket.status = TicketStatus_TODO

\* an item with the values Done, High normalized to status "High"
C23_Witness ==
    \E c \in Callers :
        /\ Parsed(c)
        /\ Len(op[c].project_item.fieldValues) >= 2
        /\ IsSingleSelect(op[c].project_item.fieldValues[1])
        /\ op[c].project_item.fieldValues[1].name = <<Chars_Done>>
        /\ IsSingleSelect(op[c].project_item.fieldValues[2])
        /\ op[c].project_item.fieldValues[2].name = <<Chars_High>>
        /\ NamedSingleSelects(c) = {1, 2}
        /\ res[c].ticket.status = Chars_High

\* C24: whatever the shape of the labels collection and, independently, of
\* the assignees collection (nested {nodes: [...]} or flat list), the
\* normalized ticket has the issue's label names and assignee logins in
\* their order, and is otherwise the same ticket.
C24_ShapesAgree ==
    \A c \in Callers :
        Parsed(c) =>
            /\ res[c].ticket.labels = issues[1].labels
            /\ res[c].ticket.assignees = issues[1].assignees
            /\ [res[c].ticket EXCEPT !.status = TicketStatus_TODO] = Canonical(1)

\* two labels nested and two assignees flat, normalized in their order
C24_Witness ==
    \E c \in Callers :
        /\ Parsed(c)
        /\ op[c].labels_shape = "dict"
        /\ op[c].assignees_shape = "list"
        /\ issues[1].labels = <<"ui", "bug">>
        /\ issues[1].assignees = <<"bob", "ann">>
        /\ res[c].ticket.labels = <<"ui", "bug">>
        /\ res[c].ticket.assignees = <<"bob", "ann">>

-----------------------------------------------------------------------------
(* Properties of partial failure, checked under SpecStatus and SpecSubtask. *)

\* the status of the item on the boards, << >> when no board has the item
StatusOfItem(item_id) ==
    UNION {{board[n].items[i].status :
                i \in {j \in 1..Len(board[n].items) :
                            ItemId(n, board[n].items[j].content) = item_id}} :
           n \in 1..Len(board)}

\* request i of the invocation is the field update, which succeeded, and the
\* re-fetch after it failed
RefetchFailedAfterUpdate(c, i) ==
    /\ i \in StatusUpdates(c)
    /\ log[c][i].out = "ok"
    /\ i < Len(log[c])
    /\ log[c][i + 1].out # "ok"

\* C25: when the field-update mutation of update_status succeeded and the
\* re-fetch after it failed, the invocation has failed with that failure and
\* no ticket, the item's status on the board is the new option, and the
\* failed re-fetch is the last request of the invocation.
C25_NoRollback ==
    \A c \in Callers :
        \A i \in 1..Len(log[c]) :
            (op[c].name = "update_status" /\ RefetchFailedAfterUpdate(c, i)) =>
                /\ pc[c] = "done"
                /\ ~res[c].ok
                /\ res[c].ticket = NoTicket
                /\ res[c].err = _graphql_request(log[c][i + 1].out)
                /\ log[c][i + 1].req \in {"issue(number)", "node(id)"}
                /\ log[c][i + 1].arg = op[c].ticket_id
                /\ Len(log[c]) = i + 1
                /\ StatusOfItem(log[c][i].arg) = {log[c][i].value}
                /\ log[c][i].value = loc[c].option_id

\* the status was set to Done on the board and the caller got the failure
C25_Witness ==
    \E c \in Callers : \E i \in 1..Len(log[c]) :
        /\ Done(c, "update_status")
        /\ RefetchFailedAfterUpdate(c, i)
        /\ log[c][i].value = <<"o", "3">>
        /\ StatusOfItem(log[c][i].arg) = {<<"o", "3">>}
        /\ board # pre[c].board
        /\ ~res[c].ok

\* create_subtask created the ticket (its POST was answered) and a request
\* of the add_subtask that follows ended in failure
FailedAfterCreation(c) ==
    /\ CreatingSubtask(c)
    /\ \E i \in Creations(c) :
            /\ log[c][i].out = "ok"
            /\ \E j \in (i + 1)..Len(log[c]) : log[c][j].out # "ok"

\* the addComment mutation reached the backend although the adapter saw it fail
CommentApplied(c) ==
    \E j \in 1..Len(log[c]) : log[c][j].req = "addComment" /\ log[c][j].out = "timeout"

-----------------------------------------------------------------------------
(* Properties of failures in _get_project_id, checked under SpecStatus.    *)

\* C27: a scope lookup of _get_project_id that ends in a transport failure
\* ends the invocation with that failure, no further scope is looked up and
\* the project id stays unset; a lookup under the repository or user scope
\* answered with an error list is followed by the lookup under the next scope.
C27_TransportPropagates ==
    \A c \in Callers :
        \A i \in 1..Len(log[c]) :
            IsScopeRequest(log[c][i]) =>
                /\ log[c][i].out = "transport" =>
                        /\ i = Len(log[c])
                        /\ pc[c] = "done"
                        /\ res[c] = Raised(HTTPError)
                        /\ self._project_id = NoId
                /\ \A k \in 1..(Len(Scopes) - 1) :
                        (log[c][i].req = ScopeRequest(k) /\ log[c][i].out = "protocol") =>
                            IF i = Len(log[c])
                            THEN pc[c] = "project_" \o Scopes[k + 1]
                            ELSE log[c][i + 1].req = ScopeRequest(k + 1)

\* the repository lookup was answered with an error list and swallowed, the
\* user lookup failed in transport: the organization was never asked
C27_Witness ==
    \E c \in Callers :
        /\ pc[c] = "done"
        /\ Len(log[c]) >= 2
        /\ log[c][Len(log[c]) - 1].req = ScopeRequest(1)
        /\ log[c][Len(log[c]) - 1].out = "protocol"
        /\ log[c][Len(log[c])].req = ScopeRequest(2)
        /\ log[c][Len(log[c])].out = "transport"
        /\ projects[1].scope = "organization"
        /\ log[c][Len(log[c])].arg = PyStrInt(1)
        /\ res[c].err = HTTPError
        /\ self._project_id = NoId

\* the invocation ended inside _get_project_id: no project number, no scope
\* with the project, or a lookup that failed in transport
ResolutionFailed(c) ==
    /\ pc[c] = "done"
    /\ ~res[c].ok
    /\ \/ res[c].err.text = "Project number not specified"
       \/ ProjectNotFound(c)
       \/ /\ Len(log[c]) > 0
          /\ IsScopeRequest(log[c][Len(log[c])])
          /\ res[c].err = HTTPError

\* the last request of the invocation is a scope lookup that returned a project
LookupReturnedProject(c) ==
    /\ Len(log[c]) > 0
    /\ \E k \in 1..Len(Scopes) :
            /\ log[c][Len(log[c])].req = ScopeRequest(k)
            /\ Matched(log[c][Len(log[c])], k)

\* C28: an invocation that fails inside _get_project_id leaves _project_id
\* unset when it found it unset; an invocation begun with the slot unset gets
\* a project id only from a scope lookup of its own that returned the project;
\* and every step that sets the slot is such a lookup, storing that project's id.
C28_FailureLeavesCacheUnset ==
    /\ [](\A c \in Callers :
            /\ (ResolutionFailed(c) /\ pre[c].project_id = NoId) =>
                    self._project_id = NoId
            /\ (pre[c].project_id = NoId /\ loc[c].project_id # NoId) =>
                    \E i \in 1..Len(log[c]) : \E k \in 1..Len(Scopes) :
                        /\ log[c][i].req = ScopeRequest(k)
                        /\ Matched(log[c][i], k)
                        /\ loc[c].project_id = ProjectId(PyInt(log[c][i].arg)))
    /\ [][self'._project_id # self._project_id =>
            \E c \in Callers :
                /\ Len(log'[c]) = Len(log[c]) + 1
                /\ LookupReturnedProject(c)'
                /\ self'._project_id = ProjectId(PyInt(log'[c][Len(log'[c])].arg))]_vars

\* all three scopes said no to project 3: the error, and the slot still unset
C28_Witness ==
    \E c \in Callers :
        /\ ResolutionFailed(c)
        /\ ProjectNotFound(c)
        /\ NoFault(c)
        /\ pre[c].project_id = NoId
        /\ self._project_id = NoId
        /\ Len(log[c]) >= Len(Scopes)

-----------------------------------------------------------------------------
(* assign_ticket (client.py:872-900), add_milestone (client.py:957-988).   *)

\* the logins user(login) resolves
Users == {"ann"}

\* the repository's milestones, by title; milestone k has number k
RepoMilestones == <<"m1">>

StartAssignTicket(c) ==
    \E ticket_id \in NumberIds, assignee \in {"ann", "zed"} :
        /\ Invoke(c, [NoOp EXCEPT !.name = "assign_ticket", !.ticket_id = ticket_id,
                                  !.assignee = assignee], "as_get_ticket")
        /\ UNCHANGED <<backend, self, held>>

\* ticket = await self.get_ticket(ticket_id)
AsGetTicket(c) ==
    /\ pc[c] = "as_get_ticket"
    /\ \E outcome \in QueryOutcomes :
        LET r == get_ticket(op[c].ticket_id, outcome)
        IN  /\ Logged(c, r.req)
            /\ IF r.ok
               THEN /\ loc' = [loc EXCEPT ![c].ticket = r.ticket]
                    /\ Goto(c, "as_user")
               ELSE /\ Finish(c, Raised(r.err))
                    /\ UNCHANGED loc
    /\ UNCHANGED <<backend, self, op, pre, held>>

\* user(login) { id }: a login that is no user is answered with an error list
AsUser(c) ==
    /\ pc[c] = "as_user"
    /\ \E outcome \in QueryOutcomes :
        LET out == IF op[c].assignee \in Users THEN outcome ELSE "protocol"
            exc == _graphql_request(out)
        IN  /\ Logged(c, Request("user", <<op[c].assignee>>, out))
            /\ IF exc # NoError THEN Finish(c, Raised(exc)) ELSE Goto(c, "as_mutation")
    /\ UNCHANGED <<backend, self, op, loc, pre, held>>

\* addAssigneesToAssignable: the login is among the assignees afterwards
WithAssignee(assignees, login) ==
    IF \E i \in 1..Len(assignees) : assignees[i] = login THEN assignees
    ELSE Append(assignees, login)

AsMutation(c) ==
    /\ pc[c] = "as_mutation"
    /\ \E outcome \in MutationOutcomes :
        LET exc == _graphql_request(outcome)
            n == CHOOSE i \in Subject(loc[c].ticket.id) : TRUE
        IN  /\ IF Applied(outcome)
               THEN issues' = [issues EXCEPT ![n].assignees =
                                    WithAssignee(@, op[c].assignee)]
               ELSE UNCHANGED issues
            /\ Logged(c, Request("addAssigneesToAssignable", loc[c].ticket.id, outcome))
            /\ IF exc # NoError THEN Finish(c, Raised(exc)) ELSE Goto(c, "rel_refetch")
    /\ UNCHANGED <<comments, projects, board, self, op, loc, pre, held>>

StartAddMilestone(c) ==
    \E ticket_id \in NumberIds, milestone_title \in {"m1", "m9"} :
        /\ Invoke(c, [NoOp EXCEPT !.name = "add_milestone", !.ticket_id = ticket_id,
                                  !.milestone = milestone_title], "ms_get_ticket")
        /\ UNCHANGED <<backend, self, held>>

\* ticket = await self.get_ticket(ticket_id)
MsGetTicket(c) ==
    /\ pc[c] = "ms_get_ticket"
    /\ \E outcome \in QueryOutcomes :
        LET r == get_ticket(op[c].ticket_id, outcome)
        IN  /\ Logged(c, r.req)
            /\ IF r.ok
               THEN /\ loc' = [loc EXCEPT ![c].ticket = r.ticket]
                    /\ Goto(c, "ms_milestones")
               ELSE /\ Finish(c, Raised(r.err))
                    /\ UNCHANGED loc
    /\ UNCHANGED <<backend, self, op, pre, held>>

\* the milestones with the title asked for
MilestonesTitled(title) == {k \in 1..Len(RepoMilestones) : RepoMilestones[k] = title}

\* milestones = await self.get_milestones(), then the match by title
MsGetMilestones(c) ==
    /\ pc[c] = "ms_milestones"
    /\ \E outcome \in QueryOutcomes :
        LET exc == _graphql_request(outcome)
        IN  /\ Logged(c, Request("milestones", << >>, outcome))
            /\ IF exc # NoError THEN Finish(c, Raised(exc))
               ELSE IF MilestonesTitled(op[c].milestone) = {}
               THEN Finish(c, Raised(ValueError("Milestone not found",
                                                <<op[c].milestone>>, << >>)))
               ELSE Goto(c, "ms_rest")
    /\ UNCHANGED <<backend, self, op, loc, pre, held>>

\* GET /repos/{owner}/{repo}/milestones, then the number by title
MsRestMilestones(c) ==
    /\ pc[c] = "ms_rest"
    /\ \E outcome \in {"ok", "transport"} :
        LET exc == _rest_request(outcome)
        IN  /\ Logged(c, Request("GET milestones", << >>, outcome))
            /\ IF exc # NoError THEN Finish(c, Raised(exc))
               ELSE IF MilestonesTitled(op[c].milestone) = {}
               THEN Finish(c, Raised(ValueError("Could not find milestone number",
                                                <<op[c].milestone>>, << >>)))
               ELSE Goto(c, "ms_patch")
    /\ UNCHANGED <<backend, self, op, loc, pre, held>>

\* PATCH /repos/{owner}/{repo}/issues/{issue_number} {"milestone": number}
MsPatch(c) ==
    /\ pc[c] = "ms_patch"
    /\ \E outcome \in RestOutcomes :
        LET exc == _rest_request(outcome)
            n == loc[c].ticket.number
        IN  /\ IF Applied(outcome)
               THEN issues' = [issues EXCEPT ![n].milestone = op[c].milestone]
               ELSE UNCHANGED issues
            /\ Logged(c, Request("PATCH issue", PyStrInt(n), outcome))
            /\ IF exc # NoError THEN Finish(c, Raised(exc)) ELSE Goto(c, "rel_refetch")
    /\ UNCHANGED <<comments, projects, board, self, op, loc, pre, held>>

-----------------------------------------------------------------------------
(* Specification: a repository with one issue, which is on the board of    *)
(* project 1; tickets are fetched, listed, assigned, given a milestone, put *)
(* on a board, and their status is updated.                                 *)

InitBoard ==
    /\ issues = <<ExistingIssue("T1")>>
    /\ comments = << << >> >>
    /\ projects = <<ProjectWithStatus("repository"), ProjectWithoutStatus>>
    /\ board = <<[foreign |-> 0, items |-> <<[content |-> 1, status |-> NoId]>>],
                 EmptyBoard(0)>>
    /\ self = InitAdapter(1)
    /\ InitCallers

NextBoard ==
    \E c \in Callers :
        \/ StartGetTicket(c)
        \/ GetTicketQuery(c)
        \/ StartGetTickets(c)
        \/ GetTicketsQuery(c)
        \/ StartAssignTicket(c)
        \/ AsGetTicket(c)
        \/ AsUser(c)
        \/ AsMutation(c)
        \/ StartAddMilestone(c)
        \/ MsGetTicket(c)
        \/ MsGetMilestones(c)
        \/ MsRestMilestones(c)
        \/ MsPatch(c)
        \/ RelRefetch(c)
        \/ StartUpdateStatus(c)
        \/ GetProjectIdRepository(c)
        \/ GetProjectIdUser(c)
        \/ GetProjectIdOrganization(c)
        \/ StatusFieldsQuery(c)
        \/ ItemGetTicket(c)
        \/ ItemItemsQuery(c)
        \/ StatusMutation(c)
        \/ StatusRefetch(c)
        \/ StartAddTicketToProject(c)
        \/ AtpGetTicket(c)
        \/ AtpMutation(c)
        \/ AtpRefetch(c)
        \/ Return(c)

SpecBoard == InitBoard /\ [][NextBoard]_vars

-----------------------------------------------------------------------------
(* Properties of the status of returned tickets, checked under SpecBoard.  *)

\* the board statuses of issue n: the option ids of its items
BoardStatuses(n) ==
    UNION {{board[k].items[i].status :
                i \in {j \in 1..Len(board[k].items) : board[k].items[j].content = n}} :
           k \in 1..Len(board)}

\* C29: every ticket an operation other than update_status returns, alone or
\* in a list, has status "Todo" whatever the board status of its issue is;
\* the ticket update_status returns has the name of the option it set.
C29_StatusIsBaseline ==
    \A c \in Callers :
        (pc[c] = "done" /\ res[c].ok) =>
            IF op[c].name = "update_status"
            THEN \E k \in 1..Len(loc[c].options) :
                    /\ loc[c].options[k].id = loc[c].option_id
                    /\ res[c].ticket.status = loc[c].options[k].name
            ELSE /\ res[c].ticket # NoTicket => res[c].ticket.status = TicketStatus_TODO
                 /\ op[c].name = "get_tickets" =>
                        \A i \in 1..Len(res[c].list) :
                            res[c].list[i].status = TicketStatus_TODO

\* the status of issue 1 was set to Done on the board; get_ticket returns it
\* with status "Todo"
C29_Witness ==
    \E c \in Callers :
        /\ Done(c, "get_ticket") /\ res[c].ok
        /\ res[c].ticket.number = 1
        /\ pre[c].board[1].items[1].status = <<"o", "3">>
        /\ BoardStatuses(1) = {<<"o", "3">>}
        /\ res[c].ticket.status = Chars_Todo

-----------------------------------------------------------------------------
(* Properties of the order of update_status's checks, under SpecStatus.    *)

TicketFetches(c) ==
    {i \in 1..Len(log[c]) : log[c][i].req \in {"issue(number)", "node(id)"}}

FieldsQueries(c) == {i \in 1..Len(log[c]) : log[c][i].req = "fields"}

ItemsQueries(c) == {i \in 1..Len(log[c]) : log[c][i].req = "items"}

\* C30: update_status looks the ticket up only after the project was
\* resolved, the fields query found the Status field and the status name
\* matched an option; so the project errors and the missing Status field are
\* raised before any fields match or ticket lookup, the status-not-found
\* error before any ticket lookup, also for a ticket that does not exist or
\* is not on the board, and the ticket and membership errors only after the
\* status matched.
C30_ValidationOrder ==
    \A c \in Callers :
        op[c].name = "update_status" =>
            /\ \A i \in TicketFetches(c) :
                    /\ \E j \in FieldsQueries(c) : j < i /\ log[c][j].out = "ok"
                    /\ loc[c].project_id # NoId
                    /\ loc[c].field_id # NoId
                    /\ \E k \in 1..Len(loc[c].options) :
                            /\ loc[c].options[k].id = loc[c].option_id
                            /\ lower(loc[c].options[k].name) = lower(op[c].status)
            /\ \A i \in ItemsQueries(c) : \E j \in TicketFetches(c) : j < i
            /\ (pc[c] = "done" /\ res[c].err.text \in
                    {"Project number not specified", "Project not found"}) =>
                    (FieldsQueries(c) = {} /\ TicketFetches(c) = {})
            /\ (pc[c] = "done" /\ res[c].err.text \in
                    {"Status field not found in project", "Status not found"}) =>
                    (TicketFetches(c) = {} /\ ItemsQueries(c) = {})
            /\ (pc[c] = "done" /\ res[c].err.text \in {"Ticket not found", NotInProject}) =>
                    loc[c].option_id # NoId
            /\ (pc[c] = "done" /\ NoFault(c) /\ loc[c].project_id # NoId
                    /\ \E n \in ProjectOf(loc[c].project_id) :
                            HasStatusField(n) /\ Matches(n, op[c].status) = {}) =>
                    res[c].err.text = "Status not found"

\* update_status("3", "open") for a ticket that does not exist: the error is
\* the status-not-found error and the ticket was never looked up
C30_Witness ==
    \E c \in Callers :
        /\ Done(c, "update_status")
        /\ NoFault(c)
        /\ EntityOf(op[c].ticket_id) = {}
        /\ op[c].status = Chars_open
        /\ res[c].err.text = "Status not found"
        /\ FieldsQueries(c) # {}
        /\ TicketFetches(c) = {}

====
